---- MODULE Spec2Model ----
(***************************************************************************)
(* Access-control plugin of the Baserow web-frontend.                       *)
(*                                                                         *)
(* Part 1: AccessControlPermissionManagerType.hasPermission                 *)
(* (permissionManagerTypes.js), the client-side permission evaluator.  It   *)
(* is a pure function of the permission snapshot the backend returned for   *)
(* the workspace, the operation name and the context object.                *)
(*                                                                         *)
(* JavaScript values are encoded as follows.                                *)
(*   - a boolean flag that may be absent : "true", "false", "undefined"     *)
(*   - an object that may be absent/null : <<>> (absent) or <<obj>>         *)
(*   - an id property that may be absent : NoId (falsy) or a positive id    *)
(*   - the value returned by hasPermission: "true", "false", "null",        *)
(*     "undefined", and "throw" for an exception                            *)
(*                                                                         *)
(* Part 2: PermissionCache (the permission cache service), its module-level *)
(* singleton, and the callers that are meant to keep it coherent: the       *)
(* permission services and the realtime handler.                            *)
(*                                                                         *)
(* Part 3: the pluginPermissions Vuex store with its asynchronous fetches,  *)
(* and the permissions_updated realtime handler that clears it.             *)
(*                                                                         *)
(* Part 4: getBatchPermissions of the field and row permission services.    *)
(*                                                                         *)
(* Part 5: the calls that create permission records (getOrCreate,           *)
(* updatePermissionLevel / updateAccessibleTables, the collaboration        *)
(* editor's save) against a backend that creates a record on every POST.    *)
(*                                                                         *)
(* Part 6: the permissions_updated realtime handler (realtime.js), step by  *)
(* step.  Part 7: the table and database filters of the sidebar.  Part 8:   *)
(* the condition rule engine, which runs in the backend.  Part 9: the       *)
(* collaboration editor (DatabaseCollaborationModal.vue) with the content   *)
(* of the record it saves.                                                  *)
(***************************************************************************)
EXTENDS Integers, Sequences, FiniteSets, TLC

VARIABLES permissions, operation, context, result

\* the PermissionCache object (Part 2) and the clock Date.now() reads
VARIABLES cache, accessOrder, ttl, maxSize, now, cacheOp, cacheRet

\* the options object the PermissionCache was constructed with
VARIABLES given

\* the keys the cache holds, in the order of their last successful get or
\* set: kept beside the object, which never reads it
VARIABLES recency

\* the pluginPermissions Vuex store (Part 3), its requests in flight, the
\* fetchPermission calls that wait, and what the last call resolved to
VARIABLES storePermissions, storeLoading, requests, waiters, resolved,
          endedBy, handled

\* a getBatchPermissions call (Part 4): the service, the answer of the
\* server for each id, and the map the call returned
VARIABLES batchService, batchResponses, batchResult

\* the permission records the backend holds for one scope object and one
\* user (Part 5), the service and editor calls in flight, the record id the
\* editor holds, and the number of calls started
VARIABLES records, calls, editorId, started

\* a run of the permissions_updated realtime handler (Part 6): where it
\* stands, the event and the statements it has executed
VARIABLES handler

\* the sidebar (Part 7): the workspace and database it renders and what its
\* accessibleTables and hasAccessToDatabase returned
VARIABLES sidebar

\* the condition rule engine (Part 8): the rules of a table, the row and
\* user it was asked about, and its decision
VARIABLES engine

\* the collaboration editor (Part 9): its currentCollaboration and saving
\* flag, the records the backend stores, and the saves in flight
VARIABLES currentCollaboration, saving, stored, saves

evalVars == <<permissions, operation, context, result>>

editorVars == <<currentCollaboration, saving, stored, saves>>

restVars == <<handler, sidebar, engine, editorVars>>

batchVars == <<batchService, batchResponses, batchResult>>

recordVars == <<records, calls, editorId, started>>

storeVars == <<storePermissions, storeLoading, requests, waiters, resolved,
               endedBy, handled>>

cacheVars == <<cache, accessOrder, ttl, maxSize, now, cacheOp, cacheRet,
               recency, given>>

vars == <<evalVars, cacheVars, storeVars, batchVars, recordVars, restVars>>

----------------------------------------------------------------------------
(* Bounds of the model *)

\* ids of databases, tables and fields are drawn from 1..MaxId (one id space
\* per object type, so ids of different types can coincide, as in the host)
MaxId == 1

\* number of the four layer objects (workspace_structure,
\* database_collaborations, table_permissions, field_permissions) a snapshot
\* carries at once; the others are absent
MaxLayers == 2

----------------------------------------------------------------------------
(* JavaScript value helpers *)

\* an absent id property (undefined); falsy like every absent value
NoId == 0

Ids == 1..MaxId

Flag == {"true", "false", "undefined"}

\* JS truthiness of a flag value
Truthy(v) == v = "true"

\* a || b on flag values
OrElse(a, b) == IF Truthy(a) THEN a ELSE b

\* a || b on id properties (undefined and 0 are falsy)
OrId(a, b) == IF a # NoId THEN a ELSE b

Undefined == <<>>

Defined(o) == o # <<>>

\* obj[key] on a map object: the entry, or undefined
Lookup(m, key) == IF key \in DOMAIN m THEN <<m[key]>> ELSE Undefined

\* obj?.flag on an object that may be absent
OptFlag(o, name) == IF Defined(o) THEN o[1][name] ELSE "undefined"

----------------------------------------------------------------------------
(* Operation names *)

WorkspaceOps ==
    {"application.create_application", "workspace.create_application",
     "application.delete"}

DatabaseOps == {"database.create_table", "database.table.delete"}

TableOps ==
    {"database.table.field.create", "database.table.field.delete",
     "database.table.update", "database.table.row.create",
     "database.table.row.update"}

FieldOps == {"database.table.field.read", "database.table.field.update"}

\* an operation the host checks that no layer of hasPermission mentions
OtherOps == {"database.order_tables"}

Operations == WorkspaceOps \cup DatabaseOps \cup TableOps \cup FieldOps
                  \cup OtherOps

----------------------------------------------------------------------------
(* hasPermission, permissionManagerTypes.js lines 26-142 *)

\* marker: the layer did not return, control falls through to the next one
Continue == "continue"

\* lines 42-53
workspaceStructureCheck(p, op) ==
    IF Defined(p.workspace_structure)
    THEN IF op = "application.create_application"
            \/ op = "workspace.create_application"
         THEN "false"
         ELSE IF op = "application.delete"
         THEN p.workspace_structure[1].can_delete_database
         ELSE Continue
    ELSE Continue

\* lines 55-89
databaseCheck(p, op, ctx) ==
    IF Defined(ctx) /\ Defined(p.database_collaborations)
    THEN LET databaseId == OrId(ctx[1].database_id, ctx[1].id)
             collab == Lookup(p.database_collaborations[1], databaseId)
         IN  IF Defined(collab)
             THEN IF op = "database.create_table"
                  THEN IF Truthy(OptFlag(p.workspace_structure,
                                         "can_create_table"))
                       THEN "true"
                       ELSE collab[1].can_create_table
                  ELSE IF op = "database.table.delete"
                  THEN IF Truthy(OptFlag(p.workspace_structure,
                                         "can_delete_table"))
                       THEN "true"
                       ELSE collab[1].can_delete_table
                  ELSE Continue
             ELSE IF op = "database.create_table"
                  THEN OrElse(OptFlag(p.workspace_structure,
                                      "can_create_table"), "false")
                  ELSE IF op = "database.table.delete"
                  THEN OrElse(OptFlag(p.workspace_structure,
                                      "can_delete_table"), "false")
                  ELSE Continue
    ELSE Continue

\* tableCheck with 'database.table.row.create' missing from the read-only test
tableCheck_NoRowCreate(p, op, ctx) ==
    IF Defined(ctx) /\ Defined(p.table_permissions)
    THEN LET tableId == OrId(ctx[1].table_id, ctx[1].id)
             tablePerm == Lookup(p.table_permissions[1], tableId)
         IN  IF Defined(tablePerm)
             THEN IF op = "database.table.field.create"
                  THEN tablePerm[1].can_create_field
                  ELSE IF op = "database.table.field.delete"
                  THEN tablePerm[1].can_delete_field
                  ELSE IF (op = "database.table.update"
                           \/ op = "database.table.row.update")
                          /\ tablePerm[1].permission_level = "read_only"
                  THEN "false"
                  ELSE Continue
             ELSE Continue
    ELSE Continue

\* lines 91-116
tableCheck(p, op, ctx) ==
    IF Defined(ctx) /\ Defined(p.table_permissions)
    THEN LET tableId == OrId(ctx[1].table_id, ctx[1].id)
             tablePerm == Lookup(p.table_permissions[1], tableId)
         IN  IF Defined(tablePerm)
             THEN IF op = "database.table.field.create"
                  THEN tablePerm[1].can_create_field
                  ELSE IF op = "database.table.field.delete"
                  THEN tablePerm[1].can_delete_field
                  ELSE IF (op = "database.table.update"
                           \/ op = "database.table.row.create"
                           \/ op = "database.table.row.update")
                          /\ tablePerm[1].permission_level = "read_only"
                  THEN "false"
                  ELSE Continue
             ELSE Continue
    ELSE Continue

\* fieldCheck whose update test names 'read_only' only
fieldCheck_HiddenUpdatable(p, op, ctx) ==
    IF Defined(ctx) /\ Defined(p.field_permissions)
    THEN LET fieldId == OrId(ctx[1].field_id, ctx[1].id)
             fieldPerm == Lookup(p.field_permissions[1], fieldId)
         IN  IF Defined(fieldPerm)
             THEN IF fieldPerm[1] = "hidden"
                     /\ op = "database.table.field.read"
                  THEN "false"
                  ELSE IF fieldPerm[1] = "read_only"
                          /\ op = "database.table.field.update"
                  THEN "false"
                  ELSE Continue
             ELSE Continue
    ELSE Continue

\* fieldCheck without the 'context &&' guard: reading a property of a null
\* context throws a TypeError
fieldCheck_NoContextGuard(p, op, ctx) ==
    IF Defined(p.field_permissions)
    THEN IF ~Defined(ctx) THEN "throw"
         ELSE LET fieldId == OrId(ctx[1].field_id, ctx[1].id)
                  fieldPerm == Lookup(p.field_permissions[1], fieldId)
              IN  IF Defined(fieldPerm)
                  THEN IF fieldPerm[1] = "hidden"
                          /\ op = "database.table.field.read"
                       THEN "false"
                       ELSE IF (fieldPerm[1] = "read_only"
                                \/ fieldPerm[1] = "hidden")
                               /\ op = "database.table.field.update"
                       THEN "false"
                       ELSE Continue
                  ELSE Continue
    ELSE Continue

\* lines 118-138
fieldCheck(p, op, ctx) ==
    IF Defined(ctx) /\ Defined(p.field_permissions)
    THEN LET fieldId == OrId(ctx[1].field_id, ctx[1].id)
             fieldPerm == Lookup(p.field_permissions[1], fieldId)
         IN  IF Defined(fieldPerm)
             THEN IF fieldPerm[1] = "hidden"
                     /\ op = "database.table.field.read"
                  THEN "false"
                  ELSE IF (fieldPerm[1] = "read_only"
                           \/ fieldPerm[1] = "hidden")
                          /\ op = "database.table.field.update"
                  THEN "false"
                  ELSE Continue
             ELSE Continue
    ELSE Continue

\* lines 42-141: the four layers in order, the first that returns wins
layers(p, op, ctx) ==
    LET w == workspaceStructureCheck(p, op)
        d == databaseCheck(p, op, ctx)
        t == tableCheck(p, op, ctx)
        f == fieldCheck(p, op, ctx)
    IN  IF w # Continue THEN w
        ELSE IF d # Continue THEN d
        ELSE IF t # Continue THEN t
        ELSE IF f # Continue THEN f
        ELSE "null"

\* lines 37-40
isDenied(p, op) ==
    Defined(p.denied_operations) /\ op \in p.denied_operations[1]

\* hasPermission that consults the deny-list only when no layer decided
hasPermission_DenyAfterLayers(perms, op, ctx) ==
    IF ~Defined(perms) THEN "null"
    ELSE IF Truthy(perms[1].is_admin) THEN "true"
    ELSE LET l == layers(perms[1], op, ctx)
         IN  IF l # "null" THEN l
             ELSE IF isDenied(perms[1], op) THEN "false"
             ELSE "null"

\* hasPermission that tests the deny-list before is_admin
hasPermission_DenyBeforeAdmin(perms, op, ctx) ==
    IF ~Defined(perms) THEN "null"
    ELSE IF isDenied(perms[1], op) THEN "false"
    ELSE IF Truthy(perms[1].is_admin) THEN "true"
    ELSE layers(perms[1], op, ctx)

\* hasPermission that allows when there is no permission object
hasPermission_NoSnapshotAllows(perms, op, ctx) ==
    IF ~Defined(perms) THEN "true"
    ELSE IF Truthy(perms[1].is_admin) THEN "true"
    ELSE IF isDenied(perms[1], op) THEN "false"
    ELSE layers(perms[1], op, ctx)

\* lines 26-142
hasPermission(perms, op, ctx) ==
    IF ~Defined(perms) THEN "null"
    ELSE IF Truthy(perms[1].is_admin) THEN "true"
    ELSE IF isDenied(perms[1], op) THEN "false"
    ELSE layers(perms[1], op, ctx)

----------------------------------------------------------------------------
(* Inputs *)

Some(S) == {<<x>> : x \in S}

Optional(S) == {Undefined} \cup Some(S)

\* The flag records are drawn from pairwise-covering sets: a call reads at
\* most one property of each record, and in these sets every property takes
\* every value next to every value of each other property.
FlagIndex(v) == CASE v = "true" -> 0 [] v = "false" -> 1 [] OTHER -> 2

WorkspaceStructures ==
    {w \in [can_delete_database : Flag, can_create_table : Flag,
            can_delete_table : Flag] :
        FlagIndex(w.can_delete_table) =
            (FlagIndex(w.can_delete_database)
             + FlagIndex(w.can_create_table)) % 3}

Collaborations == [can_create_table : Flag, can_delete_table : Flag]

TablePermissions ==
    {t \in [permission_level : {"read_only", "editable"},
            can_create_field : Flag, can_delete_field : Flag] :
        (t.permission_level = "read_only") <=>
            ((FlagIndex(t.can_create_field)
              + FlagIndex(t.can_delete_field)) % 3 = 0)}

FieldLevels == {"hidden", "read_only", "editable"}

\* the map objects {id: value}: empty, or one entry (a call reads one entry
\* of each map)
Maps(V) == UNION {[D -> V] : D \in {{}} \cup {{i} : i \in Ids}}

\* denied_operations: absent, empty, or a list naming operations of every
\* layer
DeniedLists ==
    {{},
     {"workspace.create_application", "database.create_table",
      "database.table.row.update", "database.table.field.read",
      "database.order_tables"}}

LayerNames ==
    {"workspace_structure", "database_collaborations", "table_permissions",
     "field_permissions"}

\* the snapshots that carry exactly the layer objects named in L
SnapshotsWith(L) ==
    [is_admin : {"true", "false"},
     denied_operations : Optional(DeniedLists),
     workspace_structure :
         IF "workspace_structure" \in L
         THEN Some(WorkspaceStructures) ELSE {Undefined},
     database_collaborations :
         IF "database_collaborations" \in L
         THEN Some(Maps(Collaborations)) ELSE {Undefined},
     table_permissions :
         IF "table_permissions" \in L
         THEN Some(Maps(TablePermissions)) ELSE {Undefined},
     field_permissions :
         IF "field_permissions" \in L
         THEN Some(Maps(FieldLevels)) ELSE {Undefined}]

Snapshots ==
    UNION {SnapshotsWith(L) :
               L \in {K \in SUBSET LayerNames : Cardinality(K) <= MaxLayers}}

\* a context object; an id property that is absent is NoId
Ctx(databaseId, tableId, fieldId, id) ==
    [database_id |-> databaseId, table_id |-> tableId, field_id |-> fieldId,
     id |-> id]

\* the context objects the callers pass: null, an application {id}, a table
\* {id, database_id}, a field {id, table_id}
Contexts ==
    {Undefined}
    \cup {<<Ctx(NoId, NoId, NoId, d)>> : d \in Ids}
    \cup {<<Ctx(d, NoId, NoId, t)>> : d \in Ids, t \in Ids}
    \cup {<<Ctx(NoId, t, NoId, f)>> : t \in Ids, f \in Ids}

----------------------------------------------------------------------------
(* PermissionCache: construction *)

\* default time-to-live of an entry in milliseconds (5 minutes)
DEFAULT_CACHE_TTL == 300000

\* default maximum number of cache entries
DEFAULT_MAX_CACHE_SIZE == 1000

\* a || b on an option that is <<>> (undefined) or <<number>>: undefined and
\* 0 are both falsy
OrDefault(a, b) == IF a = Undefined \/ a[1] = 0 THEN b ELSE a[1]

\* the operation record of a cache on which nothing has been called yet
NoCacheOp ==
    [name |-> "none", key |-> <<>>, type |-> "", id |-> 0, user |-> 0,
     value |-> "", at |-> 0, prior |-> <<>>, removed |-> 0]

\* new PermissionCache(options): empty map, empty access order
constructor(options) ==
    /\ given = options
    /\ ttl = OrDefault(options.ttl, DEFAULT_CACHE_TTL)
    /\ maxSize = OrDefault(options.maxSize, DEFAULT_MAX_CACHE_SIZE)
    /\ cache = <<>>
    /\ accessOrder = <<>>
    /\ cacheOp = NoCacheOp
    /\ cacheRet = "none"
    /\ recency = <<>>

\* const permissionCache = new PermissionCache(): the module-level singleton
permissionCache == constructor([ttl |-> Undefined, maxSize |-> Undefined])

----------------------------------------------------------------------------
(* pluginPermissions store: construction *)

StoreWorkspaces == {1}

StorePlugins == {"ai_assistant"}

Targets == StoreWorkspaces \X StorePlugins

\* no fetchPermission call has resolved yet
NoneResolved == [by |-> "none", level |-> "none", cause |-> "none",
                 stale |-> FALSE]

\* state(): permissions: {}, loading: {}; nothing in flight
state ==
    /\ storePermissions = <<>>
    /\ storeLoading = <<>>
    /\ requests = <<>>
    /\ waiters = [target \in Targets |-> 0]
    /\ resolved = NoneResolved
    /\ endedBy = [target \in Targets |-> "none"]
    /\ handled = NoId

----------------------------------------------------------------------------
(* Batch reads and record writes: nothing called yet *)

\* no getBatchPermissions call has been made
NoBatch ==
    /\ batchService = "none"
    /\ batchResponses = <<>>
    /\ batchResult = <<>>

\* the backend holds no record for the pair, the editor has loaded none
\* (currentCollaboration.id is null), no call is in flight
NoRecords ==
    /\ records = {}
    /\ calls = <<>>
    /\ editorId = NoId
    /\ started = 0

----------------------------------------------------------------------------
(* Handler, sidebar, rule engine and collaboration editor: nothing has run *)

\* no permissions_updated event has been handled
NoHandler ==
    handler = [pc |-> "idle", permission_type |-> "", plugin_type |-> Undefined,
               workspace |-> Undefined, forceFetch |-> FALSE, log |-> <<>>,
               failed |-> FALSE]

\* no sidebar is rendered
NoSidebar == sidebar = Undefined

\* the engine has not been asked
NoEngine == engine = Undefined

\* data(): currentCollaboration of a member without a record, no save
\* started, nothing stored
NoEditor ==
    /\ currentCollaboration = [id |-> NoId, accessible_tables |-> <<>>,
                               table_permissions |-> <<>>]
    /\ saving = FALSE
    /\ stored = <<>>
    /\ saves = <<>>

NoRest == NoHandler /\ NoSidebar /\ NoEngine /\ NoEditor

----------------------------------------------------------------------------
(* State machine: a snapshot is loaded, then the host calls hasPermission *)

Init ==
    /\ permissions \in Optional(Snapshots)
    /\ operation = "none"
    /\ context = Undefined
    /\ result = "none"
    /\ permissionCache
    /\ now = 0
    /\ state
    /\ NoBatch
    /\ NoRecords
    /\ NoRest

\* the host calls hasPermission(permissions, operation, context, workspaceId)
HasPermission(op, ctx) ==
    /\ operation' = op
    /\ context' = ctx
    /\ result' = hasPermission(permissions, op, ctx)
    /\ UNCHANGED permissions
    /\ UNCHANGED cacheVars
    /\ UNCHANGED storeVars
    /\ UNCHANGED <<batchVars, recordVars, restVars>>

\* one call per behaviour: hasPermission keeps no state between calls
Next ==
    /\ result = "none"
    /\ \E op \in Operations, ctx \in Contexts : HasPermission(op, ctx)

Spec == Init /\ [][Next]_vars

----------------------------------------------------------------------------
(* Vocabulary of the properties of hasPermission *)

\* hasPermission has been called and has returned (or thrown)
Called == result # "none"

\* a snapshot exists and is_admin is not truthy
NonAdmin == Defined(permissions) /\ permissions[1].is_admin # "true"

\* the operation of the call is listed in denied_operations
InDenyList ==
    /\ Defined(permissions[1].denied_operations)
    /\ operation \in permissions[1].denied_operations[1]

\* the ids the call's context resolves to (NoId when it names none)
CtxDatabaseId == OrId(context[1].database_id, context[1].id)

CtxTableId == OrId(context[1].table_id, context[1].id)

CtxFieldId == OrId(context[1].field_id, context[1].id)

\* the flag of workspace_structure is true
WorkspaceFlag(name) ==
    /\ Defined(permissions[1].workspace_structure)
    /\ permissions[1].workspace_structure[1][name] = "true"

\* database_collaborations holds an entry for database d
HasCollaboration(d) ==
    /\ Defined(permissions[1].database_collaborations)
    /\ d \in DOMAIN permissions[1].database_collaborations[1]

\* the collaboration entry of database d has the flag true
CollaborationFlag(d, name) ==
    /\ HasCollaboration(d)
    /\ permissions[1].database_collaborations[1][d][name] = "true"

\* table_permissions holds an entry for table t
HasTablePermission(t) ==
    /\ Defined(permissions[1].table_permissions)
    /\ t \in DOMAIN permissions[1].table_permissions[1]

TableLevel(t) == permissions[1].table_permissions[1][t].permission_level

\* the level field_permissions gives field f, "none" without an entry
FieldLevel(f) ==
    IF /\ Defined(permissions[1].field_permissions)
       /\ f \in DOMAIN permissions[1].field_permissions[1]
    THEN permissions[1].field_permissions[1][f]
    ELSE "none"

\* the operations that act on a table or on something inside a table
OnTableOps == TableOps \cup FieldOps \cup {"database.table.delete"}

----------------------------------------------------------------------------
\* C1 - Collaboration gate: for a non-admin snapshot whose
\* database_collaborations has no entry for database D, every operation on a
\* table of D, called with a context naming D and a table T of D, returns
\* false, also when table_permissions holds an entry for T.
C1_CollaborationGate ==
    (/\ Called /\ NonAdmin /\ Defined(context)
     /\ context[1].database_id # NoId
     /\ CtxTableId # NoId
     /\ Defined(permissions[1].database_collaborations)
     /\ ~HasCollaboration(context[1].database_id)
     /\ operation \in OnTableOps)
    => result = "false"

\* C2 - Deny-list is absolute: for a non-admin snapshot, an operation listed
\* in denied_operations returns false whatever the layers and the context
\* hold.
C2_DenyListAbsolute ==
    (Called /\ NonAdmin /\ InDenyList) => result = "false"

\* a denied create_table that both the workspace flag and the collaboration
\* flag would allow
C2_Witness ==
    /\ Called /\ NonAdmin /\ InDenyList
    /\ operation = "database.create_table"
    /\ Defined(context)
    /\ WorkspaceFlag("can_create_table")
    /\ CollaborationFlag(CtxDatabaseId, "can_create_table")
    /\ result = "false"

\* C3 - Admin bypass: with is_admin = true every operation returns true for
\* every context, operations of the deny-list and the create-database
\* operations included.
C3_AdminBypass ==
    (Called /\ Defined(permissions) /\ permissions[1].is_admin = "true")
    => result = "true"

\* an admin creating a database although the operation is denied
C3_Witness ==
    /\ Called /\ Defined(permissions) /\ permissions[1].is_admin = "true"
    /\ InDenyList
    /\ operation = "workspace.create_application"
    /\ Defined(permissions[1].workspace_structure)
    /\ result = "true"

\* C4 (as stated) - Default allow: without a permission snapshot the
\* evaluator returns true for every operation and context.
C4_DefaultAllow ==
    (Called /\ ~Defined(permissions)) => result = "true"

\* C4 (amended) - without a permission snapshot hasPermission returns null
\* (no opinion) for every operation and context.
C4_NoSnapshotDefers ==
    (Called /\ ~Defined(permissions)) => result = "null"

\* a call without snapshot, on a table context
C4_Witness ==
    /\ Called /\ ~Defined(permissions)
    /\ operation = "database.table.row.update"
    /\ Defined(context)
    /\ result = "null"

\* C5 - OR-widening: for a non-admin snapshot and an operation outside the
\* deny-list, create_table (resp. table.delete) on database D returns true
\* if the workspace flag or the flag of D's collaboration entry is true, and
\* false if neither is (a missing flag or entry counting as false).
C5_OrWidening ==
    (/\ Called /\ NonAdmin /\ ~InDenyList /\ Defined(context)
     /\ CtxDatabaseId # NoId
     /\ Defined(permissions[1].database_collaborations)
     /\ operation \in DatabaseOps)
    => LET flag == IF operation = "database.create_table"
                   THEN "can_create_table" ELSE "can_delete_table"
       IN  result = IF \/ WorkspaceFlag(flag)
                       \/ CollaborationFlag(CtxDatabaseId, flag)
                    THEN "true" ELSE "false"

\* C6 - Database creation is always denied: for every non-admin snapshot,
\* 'application.create_application' and 'workspace.create_application'
\* return false.
C6_CreateDatabaseDenied ==
    (/\ Called /\ NonAdmin
     /\ operation \in {"application.create_application",
                       "workspace.create_application"})
    => result = "false"

\* C7 (as stated) - Table resolver: with table_permissions[T] read_only,
\* table.update, row.create and row.update on T return false and field.read
\* returns null; with editable all four return null.
C7_TableResolver ==
    (/\ Called /\ NonAdmin /\ ~InDenyList /\ Defined(context)
     /\ HasTablePermission(CtxTableId))
    => /\ operation \in {"database.table.update", "database.table.row.create",
                         "database.table.row.update"}
          => result = IF TableLevel(CtxTableId) = "read_only"
                      THEN "false" ELSE "null"
       /\ operation = "database.table.field.read" => result = "null"

\* C7 (amended) - as C7, but field.read returns null only when
\* field_permissions does not mark the field id the context resolves to
\* (context.field_id || context.id) as hidden; when it does, field.read
\* returns false.
C7_TableResolverAmended ==
    (/\ Called /\ NonAdmin /\ ~InDenyList /\ Defined(context)
     /\ HasTablePermission(CtxTableId))
    => /\ operation \in {"database.table.update", "database.table.row.create",
                         "database.table.row.update"}
          => result = IF TableLevel(CtxTableId) = "read_only"
                      THEN "false" ELSE "null"
       /\ operation = "database.table.field.read"
          => result = IF FieldLevel(CtxFieldId) = "hidden"
                      THEN "false" ELSE "null"

\* a row.create refused on a read-only table
C7_Witness ==
    /\ Called /\ NonAdmin /\ ~InDenyList /\ Defined(context)
    /\ HasTablePermission(CtxTableId)
    /\ TableLevel(CtxTableId) = "read_only"
    /\ operation = "database.table.row.create"
    /\ result = "false"

\* C8 - Field resolver: for a non-admin snapshot and an operation outside
\* the deny-list, field.read on F returns false when field_permissions[F] is
\* hidden and null otherwise; field.update on F returns false when it is
\* hidden or read_only and null otherwise (editable, or no entry).
C8_FieldResolver ==
    (/\ Called /\ NonAdmin /\ ~InDenyList /\ Defined(context)
     /\ CtxFieldId # NoId)
    => /\ operation = "database.table.field.read"
          => result = IF FieldLevel(CtxFieldId) = "hidden"
                      THEN "false" ELSE "null"
       /\ operation = "database.table.field.update"
          => result = IF FieldLevel(CtxFieldId) \in {"hidden", "read_only"}
                      THEN "false" ELSE "null"

\* an update refused on a hidden field
C8_Witness ==
    /\ Called /\ NonAdmin /\ ~InDenyList /\ Defined(context)
    /\ CtxFieldId # NoId
    /\ FieldLevel(CtxFieldId) = "hidden"
    /\ operation = "database.table.field.update"
    /\ result = "false"

\* C9 (as stated) - No opinion: for every snapshot and every context, an
\* operation no layer handles returns null and does not throw.
C9_NoOpinion ==
    (Called /\ operation \in OtherOps) => result = "null"

\* C9 (amended) - for an absent snapshot, or a non-admin snapshot whose
\* deny-list does not name the operation, and every context (null included),
\* an operation no layer handles returns null and does not throw.
C9_NoOpinionAmended ==
    (/\ Called /\ operation \in OtherOps
     /\ Defined(permissions) => (NonAdmin /\ ~InDenyList))
    => result = "null"

\* an unhandled operation called with a null context on a snapshot that has
\* field permissions
C9_Witness ==
    /\ Called /\ operation \in OtherOps
    /\ NonAdmin /\ ~InDenyList
    /\ ~Defined(context)
    /\ Defined(permissions[1].field_permissions)
    /\ result = "null"

\* C10 - Decision domain: every call returns one of true, false and null,
\* never undefined, also when flags of the snapshot are absent.
C10_DecisionDomain ==
    Called => result \in {"true", "false", "null"}

----------------------------------------------------------------------------
(* PermissionCache: keys *)

DigitStrings == <<"0", "1", "2", "3", "4", "5", "6", "7", "8", "9">>

\* `${n}` of a one-digit id inside a template literal
IdString(n) == DigitStrings[n + 1]

\* the number parseInt returns for a string that holds no number
NaN == -1

\* a string is a sequence of tokens: a key holds five parts joined by ":"
\* `${workspaceId}:${userId}:${objectType}:${objectId}:${operation}`
_generateKey(params) ==
    <<IdString(params.workspaceId), ":", IdString(params.userId), ":",
      params.objectType, ":", IdString(params.objectId), ":",
      params.operation>>

\* key.split(':'): the runs of tokens between the separators
RECURSIVE split(_)
split(str) ==
    IF str = <<>> THEN << <<>> >>
    ELSE IF Head(str) = ":" THEN << <<>> >> \o split(Tail(str))
    ELSE LET rest == split(Tail(str))
         IN  << <<Head(str)>> \o Head(rest) >> \o Tail(rest)

\* parseInt(part, 10)
parseInt(part) ==
    IF part # <<>> /\ \E n \in 0..9 : DigitStrings[n + 1] = part[1]
    THEN CHOOSE n \in 0..9 : DigitStrings[n + 1] = part[1]
    ELSE NaN

\* the text of a part that is kept as a string
Text(part) == IF part = <<>> THEN "" ELSE part[1]

_parseKey(key) ==
    LET parts == split(key)
    IN  [workspaceId |-> parseInt(parts[1]),
         userId      |-> parseInt(parts[2]),
         objectType  |-> Text(parts[3]),
         objectId    |-> parseInt(parts[4]),
         operation   |-> Text(parts[5])]

----------------------------------------------------------------------------
(* PermissionCache: the Map, the access-order array and the methods.  A     *)
(* cache object c is [cache |-> the Map, accessOrder |-> the array]; an     *)
(* entry of the Map is [value, timestamp].                                  *)

\* Map.delete of a set of keys
MapDelete(m, keys) == [k \in DOMAIN m \ keys |-> m[k]]

\* Map.set
MapSet(m, key, entry) ==
    [k \in DOMAIN m \cup {key} |-> IF k = key THEN entry ELSE m[k]]

\* indexOf(key) followed by splice(index, 1) when index > -1
RECURSIVE RemoveFirst(_, _)
RemoveFirst(order, key) ==
    IF order = <<>> THEN <<>>
    ELSE IF Head(order) = key THEN Tail(order)
    ELSE <<Head(order)>> \o RemoveFirst(Tail(order), key)

\* keysToDelete.forEach(key => indexOf/splice): distinct keys commute
RECURSIVE RemoveEach(_, _)
RemoveEach(order, keys) ==
    IF keys = {} THEN order
    ELSE LET k == CHOOSE x \in keys : TRUE
         IN  RemoveEach(RemoveFirst(order, k), keys \ {k})

_updateAccessOrder_KeepPlace(order, key) ==
    IF \E i \in DOMAIN order : order[i] = key THEN order
    ELSE Append(order, key)

\* indexOf / splice of the key when it is listed, then push
_updateAccessOrder(order, key) == Append(RemoveFirst(order, key), key)

\* now - entry.timestamp > this.ttl
Expired(entry, t, ttlv) == t - entry.timestamp > ttlv

\* while (cache.size > maxSize && accessOrder.length > 0) shift and delete
RECURSIVE evictLoop(_, _)
evictLoop(c, max) ==
    IF Cardinality(DOMAIN c.cache) > max /\ Len(c.accessOrder) > 0
    THEN evictLoop([cache |-> MapDelete(c.cache, {Head(c.accessOrder)}),
                    accessOrder |-> Tail(c.accessOrder)], max)
    ELSE c

_cleanup(c, t, ttlv, max) ==
    LET expiredKeys == {k \in DOMAIN c.cache : Expired(c.cache[k], t, ttlv)}
    IN  evictLoop([cache |-> MapDelete(c.cache, expiredKeys),
                   accessOrder |-> RemoveEach(c.accessOrder, expiredKeys)],
                  max)

get_ExpiresAtTtl(c, key, t, ttlv) ==
    IF key \notin DOMAIN c.cache
    THEN [c |-> c, value |-> "undefined"]
    ELSE IF t - c.cache[key].timestamp >= ttlv
    THEN [c |-> [cache |-> MapDelete(c.cache, {key}),
                 accessOrder |-> RemoveFirst(c.accessOrder, key)],
          value |-> "undefined"]
    ELSE [c |-> [cache |-> c.cache,
                 accessOrder |-> _updateAccessOrder(c.accessOrder, key)],
          value |-> c.cache[key].value]

\* get(params): the cache afterwards and the value returned
get(c, key, t, ttlv) ==
    IF key \notin DOMAIN c.cache
    THEN [c |-> c, value |-> "undefined"]
    ELSE IF Expired(c.cache[key], t, ttlv)
    THEN [c |-> [cache |-> MapDelete(c.cache, {key}),
                 accessOrder |-> RemoveFirst(c.accessOrder, key)],
          value |-> "undefined"]
    ELSE [c |-> [cache |-> c.cache,
                 accessOrder |-> _updateAccessOrder(c.accessOrder, key)],
          value |-> c.cache[key].value]

\* set(params, value): _cleanup runs first, then the entry is stored
set(c, key, value, t, ttlv, max) ==
    LET cleaned == _cleanup(c, t, ttlv, max)
    IN  [cache |-> MapSet(cleaned.cache, key,
                          [value |-> value, timestamp |-> t]),
         accessOrder |-> _updateAccessOrder(cleaned.accessOrder, key)]

delete_MapOnly(c, key) ==
    [cache |-> MapDelete(c.cache, {key}),
     accessOrder |-> c.accessOrder]

\* delete(params)
delete(c, key) ==
    [cache |-> MapDelete(c.cache, {key}),
     accessOrder |-> RemoveFirst(c.accessOrder, key)]

\* the second half of every invalidateBy method: keysToDelete.forEach
\* deletes the key from the Map and from the access order
invalidate(c, keysToDelete) ==
    [cache |-> MapDelete(c.cache, keysToDelete),
     accessOrder |-> RemoveEach(c.accessOrder, keysToDelete)]

invalidateByWorkspace(c, workspaceId) ==
    invalidate(c, {key \in DOMAIN c.cache :
                      LET parsed == _parseKey(key)
                      IN  parsed.workspaceId = workspaceId})

invalidateByDatabase(c, databaseId) ==
    invalidate(c, {key \in DOMAIN c.cache :
                      LET parsed == _parseKey(key)
                      IN  /\ parsed.objectType = "database"
                          /\ parsed.objectId = databaseId})

invalidateByTable(c, tableId) ==
    invalidate(c, {key \in DOMAIN c.cache :
                      LET parsed == _parseKey(key)
                      IN  /\ parsed.objectType = "table"
                          /\ parsed.objectId = tableId})

invalidateByField_AnyType(c, fieldId) ==
    invalidate(c, {key \in DOMAIN c.cache :
                      LET parsed == _parseKey(key)
                      IN  parsed.objectId = fieldId})

invalidateByField(c, fieldId) ==
    invalidate(c, {key \in DOMAIN c.cache :
                      LET parsed == _parseKey(key)
                      IN  /\ parsed.objectType = "field"
                          /\ parsed.objectId = fieldId})

invalidateByRow_WithTable(c, tableId, rowId) ==
    invalidate(c, {key \in DOMAIN c.cache :
                      LET parsed == _parseKey(key)
                      IN  \/ /\ parsed.objectType = "row"
                             /\ parsed.objectId = rowId
                          \/ /\ parsed.objectType = "table"
                             /\ parsed.objectId = tableId})

\* the table id is accepted and not used
invalidateByRow(c, tableId, rowId) ==
    invalidate(c, {key \in DOMAIN c.cache :
                      LET parsed == _parseKey(key)
                      IN  /\ parsed.objectType = "row"
                          /\ parsed.objectId = rowId})

invalidateByUser(c, userId) ==
    invalidate(c, {key \in DOMAIN c.cache :
                      LET parsed == _parseKey(key)
                      IN  parsed.userId = userId})

\* clear()
clear(c) == [cache |-> <<>>, accessOrder |-> <<>>]

----------------------------------------------------------------------------
(* PermissionCache: inputs *)

\* maxSize of the caches built for the checks (the singleton keeps the
\* default)
MaxSize == 2

\* ttl, in clock ticks, of the caches built for the checks
Ttl == 1

\* the clock stops after MaxTime ticks
MaxTime == 2

CacheValues == {"true", "false"}

KeyParams(workspaceId, userId, objectType, objectId) ==
    [workspaceId |-> workspaceId, userId |-> userId,
     objectType |-> objectType, objectId |-> objectId,
     operation |-> "read"]

CacheObjectTypes == {"database", "table", "field", "row"}

\* the parameters of the calls: one field entry and every entry that differs
\* from it in exactly one part of the key
CacheParams ==
    {KeyParams(1, 1, "field", 1), KeyParams(2, 1, "field", 1),
     KeyParams(1, 2, "field", 1), KeyParams(1, 1, "field", 2)}
    \cup {KeyParams(1, 1, type, 1) : type \in CacheObjectTypes}

\* row entries of two workspaces, two users and two rows, with a table and a
\* field entry that carry the same id
RowParams ==
    {KeyParams(1, 1, "row", 1), KeyParams(2, 1, "row", 1),
     KeyParams(1, 2, "row", 1), KeyParams(1, 1, "row", 2),
     KeyParams(1, 1, "table", 1), KeyParams(1, 1, "field", 1)}

\* the parameters of the calls while the clock runs
TtlParams == {KeyParams(1, 1, "field", 1), KeyParams(1, 1, "field", 2)}

CacheIds == {1, 2}

----------------------------------------------------------------------------
(* PermissionCache: state machine.  cacheOp records the last call and      *)
(* cacheRet the value the last get returned.                                *)

This == [cache |-> cache, accessOrder |-> accessOrder]

\* the record of a call.  value is the value a set stored; prior is, for a
\* get, the set of the same key it directly follows (<<>> when there is
\* none); at (the clock at the call) and removed (the number of entries the
\* call dropped) are filled in by Becomes
CacheOp(name, key, type, id, user) ==
    [name |-> name, key |-> key, type |-> type, id |-> id, user |-> user,
     value |-> "", at |-> 0, prior |-> <<>>, removed |-> 0]

\* what a call on the cache leaves alone
cacheFrame ==
    <<given, ttl, maxSize, now, evalVars, storeVars, batchVars, recordVars,
      restVars>>

\* the order of last use after a call: a set, or a get that returned a
\* value, makes its key the latest; keys that left the Map are dropped
Used(order, present, op, ret) ==
    LET hit == op.name = "set" \/ (op.name = "get" /\ ret # "undefined")
        latest == IF hit
                  THEN SelectSeq(order, LAMBDA k : k # op.key) \o <<op.key>>
                  ELSE order
    IN  SelectSeq(latest, LAMBDA k : k \in present)

\* the instance becomes c, the call is recorded
Becomes(c, op, ret) ==
    /\ cache' = c.cache
    /\ accessOrder' = c.accessOrder
    /\ cacheOp' = [op EXCEPT !.at = now,
                              !.removed =
                                 Cardinality(DOMAIN cache \ DOMAIN c.cache)]
    /\ cacheRet' = ret
    /\ recency' = Used(recency, DOMAIN c.cache, op, ret)

InitCache ==
    /\ constructor([ttl |-> <<Ttl>>, maxSize |-> <<MaxSize>>])
    /\ now = 0
    /\ permissions = Undefined
    /\ operation = "none"
    /\ context = Undefined
    /\ result = "none"
    /\ NoBatch
    /\ NoRecords
    /\ NoRest
    /\ state

\* cachePermission(params, result)
Set(params, value) ==
    LET key == _generateKey(params)
    IN  /\ Becomes(set(This, key, value, now, ttl, maxSize),
                   [CacheOp("set", key, "", 0, 0) EXCEPT !.value = value],
                   "none")
        /\ UNCHANGED cacheFrame

\* getCachedPermission(params)
Get(params) ==
    LET key == _generateKey(params)
        got == get(This, key, now, ttl)
        prior == IF cacheOp.name = "set" /\ cacheOp.key = key
                 THEN <<[value |-> cacheOp.value, at |-> cacheOp.at]>>
                 ELSE <<>>
    IN  /\ Becomes(got.c,
                   [CacheOp("get", key, "", 0, 0) EXCEPT !.prior = prior],
                   got.value)
        /\ UNCHANGED cacheFrame

Delete(params) ==
    LET key == _generateKey(params)
    IN  /\ Becomes(delete(This, key),
                   CacheOp("delete", key, "", 0, 0), "none")
        /\ UNCHANGED cacheFrame

\* onWorkspacePermissionChanged(workspaceId)
InvalidateByWorkspace(workspaceId) ==
    /\ Becomes(invalidateByWorkspace(This, workspaceId),
               CacheOp("invalidateByWorkspace", <<>>, "", workspaceId, 0),
               "none")
    /\ UNCHANGED cacheFrame

\* onDatabaseCollaborationChanged(databaseId)
InvalidateByDatabase(databaseId) ==
    /\ Becomes(invalidateByDatabase(This, databaseId),
               CacheOp("invalidateByDatabase", <<>>, "", databaseId, 0),
               "none")
    /\ UNCHANGED cacheFrame

\* onTablePermissionChanged(tableId)
InvalidateByTable(tableId) ==
    /\ Becomes(invalidateByTable(This, tableId),
               CacheOp("invalidateByTable", <<>>, "", tableId, 0), "none")
    /\ UNCHANGED cacheFrame

\* onFieldPermissionChanged(fieldId)
InvalidateByField(fieldId) ==
    /\ Becomes(invalidateByField(This, fieldId),
               CacheOp("invalidateByField", <<>>, "", fieldId, 0), "none")
    /\ UNCHANGED cacheFrame

\* onRowPermissionChanged(tableId, rowId)
InvalidateByRow(tableId, rowId) ==
    /\ Becomes(invalidateByRow(This, tableId, rowId),
               CacheOp("invalidateByRow", <<>>, "", rowId, 0), "none")
    /\ UNCHANGED cacheFrame

\* onUserPermissionChanged(userId)
InvalidateByUser(userId) ==
    /\ Becomes(invalidateByUser(This, userId),
               CacheOp("invalidateByUser", <<>>, "", 0, userId), "none")
    /\ UNCHANGED cacheFrame

\* clearAll()
Clear ==
    /\ Becomes(clear(This), CacheOp("clear", <<>>, "", 0, 0), "none")
    /\ UNCHANGED cacheFrame

\* a millisecond of Date.now() passes
Tick ==
    /\ now < MaxTime
    /\ now' = now + 1
    /\ UNCHANGED <<cache, accessOrder, ttl, maxSize, cacheOp, cacheRet,
                   recency, given>>
    /\ UNCHANGED <<evalVars, storeVars, batchVars, recordVars, restVars>>

\* the methods of the class, called with parameters drawn from P and values
\* drawn from V
CacheApi(P, V) ==
    \/ \E params \in P, value \in V : Set(params, value)
    \/ \E params \in P : Get(params)
    \/ \E params \in P : Delete(params)
    \/ \E workspaceId \in CacheIds : InvalidateByWorkspace(workspaceId)
    \/ \E databaseId \in CacheIds : InvalidateByDatabase(databaseId)
    \/ \E tableId \in CacheIds : InvalidateByTable(tableId)
    \/ \E fieldId \in CacheIds : InvalidateByField(fieldId)
    \/ \E tableId \in CacheIds, rowId \in CacheIds :
          InvalidateByRow(tableId, rowId)
    \/ \E userId \in CacheIds : InvalidateByUser(userId)
    \/ Clear

NextCache == CacheApi(CacheParams, {"true"})

\* a cache of maxSize MaxSize whose entries do not age and hold one value
SpecCache == InitCache /\ [][NextCache]_vars

NextCacheTtl == CacheApi(TtlParams, CacheValues) \/ Tick

\* the same cache with few keys and a running clock
SpecCacheTtl == InitCache /\ [][NextCacheTtl]_vars

NextCacheRows == CacheApi(RowParams, {"true"})

\* the cache of SpecCache holding row entries
SpecCacheRows == InitCache /\ [][NextCacheRows]_vars

\* an option of the constructor: not given, or a number from 0 on
ConstructorOptions == {Undefined} \cup {<<n>> : n \in 0..MaxSize}

InitConstructed ==
    /\ \E t \in ConstructorOptions, m \in ConstructorOptions :
          constructor([ttl |-> t, maxSize |-> m])
    /\ now = 0
    /\ permissions = Undefined
    /\ operation = "none"
    /\ context = Undefined
    /\ result = "none"
    /\ NoBatch
    /\ NoRecords
    /\ NoRest
    /\ state

\* a cache constructed with any options, then used while the clock runs
SpecConstructed == InitConstructed /\ [][NextCacheTtl]_vars

----------------------------------------------------------------------------
(* The permission services (tablePermissions.js, fieldPermissions.js,       *)
(* rowPermissions.js, databaseCollaboration.js) on the singleton.  The four *)
(* services share one shape; type names the service.  A request that fails  *)
(* throws before any invalidation, which leaves every variable as it was.   *)

\* the parameters of the decisions cached while the services run
ServiceParams == {KeyParams(1, 1, type, 1) : type \in CacheObjectTypes}

\* onTablePermissionChanged / onFieldPermissionChanged /
\* onRowPermissionChanged / onDatabaseCollaborationChanged
onPermissionChanged(c, type, tableId, id) ==
    CASE type = "table"    -> invalidateByTable(c, id)
      [] type = "field"    -> invalidateByField(c, id)
      [] type = "row"      -> invalidateByRow(c, tableId, id)
      [] type = "database" -> invalidateByDatabase(c, id)

\* createPermission / createCollaboration(id, data): POST, then the scope
\* is invalidated, and the user when data.user_id is truthy
createPermission(c, type, tableId, id, user_id) ==
    LET scoped == onPermissionChanged(c, type, tableId, id)
    IN  IF user_id # NoId THEN invalidateByUser(scoped, user_id) ELSE scoped

\* updatePermission / updateCollaboration(id, permissionId, data): PATCH,
\* then the scope is invalidated
updatePermission(c, type, tableId, id) ==
    onPermissionChanged(c, type, tableId, id)

\* deletePermission / deleteCollaboration(id, permissionId): DELETE, then
\* the scope is invalidated
deletePermission(c, type, tableId, id) ==
    onPermissionChanged(c, type, tableId, id)

\* updatePermissionLevel / updateAccessibleTables(id, userId, ...): the
\* record is looked up; an existing one is updated and the user invalidated,
\* a missing one is created
updatePermissionLevel(c, type, tableId, id, userId, existing) ==
    IF existing
    THEN invalidateByUser(updatePermission(c, type, tableId, id), userId)
    ELSE createPermission(c, type, tableId, id, userId)

InitServices ==
    /\ permissionCache
    /\ now = 0
    /\ permissions = Undefined
    /\ operation = "none"
    /\ context = Undefined
    /\ result = "none"
    /\ NoBatch
    /\ NoRecords
    /\ NoRest
    /\ state

\* user_id is the user of the record that is created
CreatePermission(type, tableId, id, user_id) ==
    /\ Becomes(createPermission(This, type, tableId, id, user_id),
               CacheOp("createPermission", <<>>, type, id, user_id), "none")
    /\ UNCHANGED cacheFrame

\* owner is the user of the record permissionId names
UpdatePermission(type, tableId, id, owner) ==
    /\ Becomes(updatePermission(This, type, tableId, id),
               CacheOp("updatePermission", <<>>, type, id, owner), "none")
    /\ UNCHANGED cacheFrame

DeletePermission(type, tableId, id, owner) ==
    /\ Becomes(deletePermission(This, type, tableId, id),
               CacheOp("deletePermission", <<>>, type, id, owner), "none")
    /\ UNCHANGED cacheFrame

UpdatePermissionLevel(type, tableId, id, userId, existing) ==
    /\ Becomes(updatePermissionLevel(This, type, tableId, id, userId, existing),
               CacheOp("updatePermissionLevel", <<>>, type, id, userId), "none")
    /\ UNCHANGED cacheFrame

\* getOrCreatePermission / getOrCreateCollaboration(id, userId): an existing
\* record is returned, a missing one is created
GetOrCreatePermission(type, tableId, id, userId, existing) ==
    IF existing
    THEN /\ Becomes(This, CacheOp("getOrCreatePermission", <<>>, type, id,
                                  userId), "none")
         /\ UNCHANGED cacheFrame
    ELSE CreatePermission(type, tableId, id, userId)

NextServices ==
    \/ \E params \in ServiceParams : Set(params, "true")
    \/ \E type \in CacheObjectTypes, tableId \in {1}, id \in {1} :
          \/ \E user_id \in {NoId} \cup CacheIds :
                CreatePermission(type, tableId, id, user_id)
          \/ \E owner \in CacheIds :
                UpdatePermission(type, tableId, id, owner)
          \/ \E owner \in CacheIds :
                DeletePermission(type, tableId, id, owner)
          \/ \E userId \in CacheIds, existing \in BOOLEAN :
                UpdatePermissionLevel(type, tableId, id, userId, existing)
          \/ \E userId \in CacheIds, existing \in BOOLEAN :
                GetOrCreatePermission(type, tableId, id, userId, existing)

\* the singleton, filled through cachePermission, and the services
SpecServices == InitServices /\ [][NextServices]_vars

----------------------------------------------------------------------------
(* Properties of PermissionCache *)

\* the keys of the entries cached for field f
FieldKeys(f) ==
    {_generateKey(params) :
        params \in {q \in CacheParams :
                       q.objectType = "field" /\ q.objectId = f}}

\* C11 (LRU bound): after a set the cache never holds more than maxSize
\* entries; the set that brings the (maxSize + 1)-th distinct key evicts the
\* least recently accessed one.
C11_LruBound ==
    cacheOp.name = "set" => Cardinality(DOMAIN cache) <= maxSize

\* the user and the scope object of the parameters a cached key was made of
KeyOwner(key) ==
    CHOOSE params \in ServiceParams : _generateKey(params) = key

\* C12 (invalidation on every write): after a successful create, update or
\* delete of a permission record through a service, the cache holds no entry
\* for the scope object that was written and no entry for the user the
\* record belongs to.
C12_InvalidationOnWrite ==
    cacheOp.name \in {"createPermission", "updatePermission",
                      "deletePermission"}
    => \A key \in DOMAIN cache :
          /\ ~ (/\ KeyOwner(key).objectType = cacheOp.type
                /\ KeyOwner(key).objectId = cacheOp.id)
          /\ KeyOwner(key).userId # cacheOp.user

\* C13 (invalidation scope): invalidateByField(f) removes exactly the
\* entries cached for field f; every other entry keeps its value and
\* timestamp, and the remaining keys keep their relative access order.
C13_InvalidationScope ==
    [][cacheOp'.name = "invalidateByField"
       => LET Kept(key) == key \notin FieldKeys(cacheOp'.id)
          IN  /\ cache' = [key \in {k \in DOMAIN cache : Kept(k)}
                             |-> cache[key]]
              /\ accessOrder' = SelectSeq(accessOrder, Kept)]_vars

\* invalidateByField(1) dropped an entry and kept the row with the same id
\* and the other field, in their order
C13_Witness ==
    /\ cacheOp.name = "invalidateByField"
    /\ cacheOp.id = 1
    /\ cacheOp.removed > 0
    /\ accessOrder = <<_generateKey(KeyParams(1, 1, "row", 1)),
                       _generateKey(KeyParams(1, 1, "field", 2))>>

\* C14 (cache round-trip): a get that directly follows the set of the same
\* key returns the value that was set while the time elapsed since the set
\* is at most the ttl; once it exceeds the ttl the get returns undefined and
\* the entry is gone.
C14_RoundTrip ==
    (cacheOp.name = "get" /\ cacheOp.prior # <<>>)
    => LET elapsed == cacheOp.at - cacheOp.prior[1].at
       IN  IF elapsed <= ttl
           THEN cacheRet = cacheOp.prior[1].value
           ELSE /\ cacheRet = "undefined"
                /\ cacheOp.key \notin DOMAIN cache

\* a get more than ttl after the set of its key missed
C14_Witness ==
    /\ cacheOp.name = "get"
    /\ cacheOp.prior # <<>>
    /\ cacheOp.at - cacheOp.prior[1].at > ttl
    /\ cacheRet = "undefined"

\* the place of a key in a list of distinct keys
Place(order, key) == CHOOSE i \in DOMAIN order : order[i] = key

\* C23 (LRU order): a get that hits key k makes k the most recently used
\* entry, and every size-based eviction performed by set removes the entry
\* whose most recent successful get or set is the oldest among the entries
\* present.
C23_LruOrder ==
    [][/\ (cacheOp'.name = "get" /\ cacheRet' # "undefined")
          => /\ accessOrder' # <<>>
             /\ accessOrder'[Len(accessOrder')] = cacheOp'.key
       /\ cacheOp'.name = "set"
          => LET evicted == DOMAIN cache \ DOMAIN cache'
             IN  \A old \in evicted, kept \in DOMAIN cache \ evicted :
                    Place(recency, old) < Place(recency, kept)]_vars

\* a set evicted the second key that was stored: the first one had been
\* read in between and stays, behind the third
C23_Witness ==
    /\ cacheOp.name = "set"
    /\ cacheOp.removed = 1
    /\ cacheOp.key = _generateKey(KeyParams(1, 1, "row", 1))
    /\ accessOrder = <<_generateKey(KeyParams(1, 1, "field", 2)),
                       _generateKey(KeyParams(1, 1, "field", 1)),
                       _generateKey(KeyParams(1, 1, "row", 1))>>
    /\ _generateKey(KeyParams(1, 2, "field", 1)) \notin DOMAIN cache

\* C24 (construction parameters are honoured): a cache constructed with
\* options {ttl, maxSize} uses exactly those values, 0 included; the defaults
\* apply only when the option is not given.
C24_OptionsHonoured ==
    /\ ttl = IF given.ttl = Undefined THEN DEFAULT_CACHE_TTL
             ELSE given.ttl[1]
    /\ maxSize = IF given.maxSize = Undefined THEN DEFAULT_MAX_CACHE_SIZE
                 ELSE given.maxSize[1]

\* C26 (cache structure invariant): after any sequence of set, get, delete,
\* the six invalidateBy operations and clear, the access-order list contains
\* every key of the cache map exactly once and no other key.
C26_OrderListsMap ==
    /\ {accessOrder[i] : i \in DOMAIN accessOrder} = DOMAIN cache
    /\ Len(accessOrder) = Cardinality(DOMAIN cache)

\* a set on a cache of maxSize 1 that held both keys evicted the older one
\* before any entry could expire
C26_Witness ==
    /\ cacheOp.name = "set"
    /\ cacheOp.removed = 1
    /\ cacheOp.at = 0
    /\ maxSize = 1
    /\ accessOrder = <<cacheOp.key>>

\* the keys of the entries cached for row r
RowKeys(r) ==
    {_generateKey(params) :
        params \in {q \in RowParams :
                       q.objectType = "row" /\ q.objectId = r}}

\* C27 (invalidateByRow): invalidateByRow(tableId, rowId) removes every
\* entry whose object type is 'row' and whose object id is rowId, for every
\* workspace and user and whatever the tableId argument, and removes no
\* other entry.
C27_InvalidateByRow ==
    [][cacheOp'.name = "invalidateByRow"
       => LET Kept(key) == key \notin RowKeys(cacheOp'.id)
          IN  /\ cache' = [key \in {k \in DOMAIN cache : Kept(k)}
                             |-> cache[key]]
              /\ accessOrder' = SelectSeq(accessOrder, Kept)]_vars

\* invalidateByRow(_, 1) dropped the entries of row 1 of two workspaces or
\* users and kept the table entry with the same id
C27_Witness ==
    /\ cacheOp.name = "invalidateByRow"
    /\ cacheOp.id = 1
    /\ cacheOp.removed = 2
    /\ accessOrder = <<_generateKey(KeyParams(1, 1, "table", 1))>>

\* C15 (evaluation results are cached): after the evaluator has decided,
\* the cache holds the decision under a key whose operation is the one that
\* was evaluated, so that getCachedPermission returns it.
C15_EvaluationCached ==
    Called => \E key \in DOMAIN cache :
                 /\ _parseKey(key).operation = operation
                 /\ get(This, key, now, ttl).value = result

----------------------------------------------------------------------------
(* pluginPermissions store: mutations, actions and getters.  An entry of    *)
(* state.permissions is [level, timestamp]; stale is bookkeeping: it tells  *)
(* that the request which wrote the entry was issued before a clear that    *)
(* has been applied since.  endedBy tells how the request that last turned  *)
(* a loading flag off ended (or that a clear dropped the flag); handled is  *)
(* the workspace of a permissions_updated handler that has just run.        *)

\* cache lifetime in milliseconds: 0, every call goes to the server
CACHE_TTL == 0

\* the bodies a successful response carries in data.permission_level, and
\* the two kinds of failure
Levels == {"none", "use", "configure"}

Responses == Levels \cup {"undefined", "404", "error"}

\* the requests in flight at once, and the calls that wait at once
MaxRequests == 2

MaxWaiters == 1

\* state.permissions[workspaceId]?.[pluginType]
Entry(m, workspaceId, pluginType) ==
    IF workspaceId \in DOMAIN m /\ pluginType \in DOMAIN m[workspaceId]
    THEN <<m[workspaceId][pluginType]>>
    ELSE Undefined

\* m[workspaceId][pluginType] = value, creating m[workspaceId] when missing
Assign(m, workspaceId, pluginType, value) ==
    LET inner == IF workspaceId \in DOMAIN m THEN m[workspaceId] ELSE <<>>
    IN  MapSet(m, workspaceId, MapSet(inner, pluginType, value))

SET_PERMISSION(m, workspaceId, pluginType, permissionLevel, t, stale) ==
    Assign(m, workspaceId, pluginType,
           [level |-> permissionLevel, timestamp |-> t, stale |-> stale])

SET_LOADING(m, workspaceId, pluginType, loading) ==
    Assign(m, workspaceId, pluginType, loading)

\* delete state.permissions[workspaceId] / state.loading[workspaceId]
CLEAR_WORKSPACE_PERMISSIONS(m, workspaceId) == MapDelete(m, {workspaceId})

\* state.loading[workspaceId]?.[pluginType], as a condition
IsLoading(m, workspaceId, pluginType) ==
    /\ Defined(Entry(m, workspaceId, pluginType))
    /\ Entry(m, workspaceId, pluginType)[1]

\* data.permission_level || 'none'
OrNone(level) == IF level = "undefined" THEN "none" ELSE level

\* getters.getPermission: the cached level, whatever its age
getPermission(m, workspaceId, pluginType) ==
    IF Defined(Entry(m, workspaceId, pluginType))
    THEN Entry(m, workspaceId, pluginType)[1].level
    ELSE "undefined"

\* result?.level || 'none' of a call that waited
WaitedLevel(m, workspaceId, pluginType) ==
    OrNone(getPermission(m, workspaceId, pluginType))

\* canUsePlugin: permission === 'use' || permission === 'configure'
canUsePlugin(permission) == permission \in {"use", "configure"}

\* how a response ends a request: with a body, with 404, with another error
Outcome(response) ==
    IF response \in Levels \cup {"undefined"} THEN "ok" ELSE response

Request(kind, workspaceId, pluginType) ==
    [kind |-> kind, workspaceId |-> workspaceId, pluginType |-> pluginType,
     preClear |-> FALSE]

RemoveAt(seq, i) == SubSeq(seq, 1, i - 1) \o SubSeq(seq, i + 1, Len(seq))

\* what an action of the store leaves alone
storeFrame == <<evalVars, cacheVars, batchVars, recordVars, restVars>>

\* _fetchPermissionFromServer up to its await: SET_LOADING true, GET sent
Issue(kind, workspaceId, pluginType) ==
    /\ Len(requests) < MaxRequests
    /\ storeLoading' = SET_LOADING(storeLoading, workspaceId, pluginType, TRUE)
    /\ requests' = Append(requests, Request(kind, workspaceId, pluginType))

InitStore ==
    /\ state
    /\ permissionCache
    /\ now = 0
    /\ permissions = Undefined
    /\ operation = "none"
    /\ context = Undefined
    /\ result = "none"
    /\ NoBatch
    /\ NoRecords
    /\ NoRest

\* fetchPermission({workspaceId, pluginType}), up to its first await
FetchPermission(workspaceId, pluginType) ==
    LET cached == Entry(storePermissions, workspaceId, pluginType)
    IN  IF Defined(cached) /\ now - cached[1].timestamp < CACHE_TTL
        THEN /\ resolved' = [by |-> "fetchPermission",
                             level |-> cached[1].level, cause |-> "cached",
                             stale |-> cached[1].stale]
             /\ handled' = NoId
             /\ UNCHANGED <<storePermissions, storeLoading, requests,
                            waiters, endedBy>>
             /\ UNCHANGED storeFrame
        ELSE IF IsLoading(storeLoading, workspaceId, pluginType)
        THEN /\ waiters[<<workspaceId, pluginType>>] < MaxWaiters
             /\ waiters' = [waiters EXCEPT ![<<workspaceId, pluginType>>] = @ + 1]
             /\ handled' = NoId
             /\ UNCHANGED <<storePermissions, storeLoading, requests,
                            resolved, endedBy>>
             /\ UNCHANGED storeFrame
        ELSE /\ Issue("fetchPermission", workspaceId, pluginType)
             /\ handled' = NoId
             /\ UNCHANGED <<storePermissions, waiters, resolved, endedBy>>
             /\ UNCHANGED storeFrame

\* refreshPermission({workspaceId, pluginType}) dispatched by a component
RefreshPermission(workspaceId, pluginType) ==
    /\ Issue("refreshPermission", workspaceId, pluginType)
    /\ handled' = NoId
    /\ UNCHANGED <<storePermissions, waiters, resolved, endedBy>>
    /\ UNCHANGED storeFrame

\* the response to request i arrives: the rest of
\* _fetchPermissionFromServer (try, catch, finally) runs, and the handler
\* that awaited it ends
Receive(i, response) ==
    LET req == requests[i]
        workspaceId == req.workspaceId
        pluginType == req.pluginType
        permissionLevel ==
            IF Outcome(response) = "ok" THEN OrNone(response) ELSE "none"
    IN  /\ storePermissions' =
              IF Outcome(response) \in {"ok", "404"}
              THEN SET_PERMISSION(storePermissions, workspaceId, pluginType,
                                  permissionLevel, now, req.preClear)
              ELSE storePermissions
        /\ storeLoading' =
              SET_LOADING(storeLoading, workspaceId, pluginType, FALSE)
        /\ requests' = RemoveAt(requests, i)
        /\ resolved' = [by |-> req.kind, level |-> permissionLevel,
                        cause |-> Outcome(response), stale |-> req.preClear]
        /\ endedBy' =
              IF IsLoading(storeLoading, workspaceId, pluginType)
              THEN [endedBy EXCEPT ![<<workspaceId, pluginType>>] =
                                       Outcome(response)]
              ELSE endedBy
        /\ handled' = IF req.kind = "handler" THEN workspaceId ELSE NoId
        /\ UNCHANGED waiters
        /\ UNCHANGED storeFrame

\* the 50 ms interval of a waiting fetchPermission fires and finds the
\* loading flag cleared: the call resolves from state.permissions
Poll(workspaceId, pluginType) ==
    /\ waiters[<<workspaceId, pluginType>>] > 0
    /\ ~ IsLoading(storeLoading, workspaceId, pluginType)
    /\ waiters' = [waiters EXCEPT ![<<workspaceId, pluginType>>] = @ - 1]
    /\ resolved' =
          [by |-> "waiter",
           level |-> WaitedLevel(storePermissions, workspaceId, pluginType),
           cause |-> endedBy[<<workspaceId, pluginType>>],
           stale |-> /\ Defined(Entry(storePermissions, workspaceId,
                                      pluginType))
                     /\ Entry(storePermissions, workspaceId,
                              pluginType)[1].stale]
    /\ handled' = NoId
    /\ UNCHANGED <<storePermissions, storeLoading, requests, endedBy>>
    /\ UNCHANGED storeFrame

\* the requests in flight for the workspace were issued before this clear
MarkPreClear(reqs, workspaceId) ==
    [i \in DOMAIN reqs |->
        IF reqs[i].workspaceId = workspaceId
        THEN [reqs[i] EXCEPT !.preClear = TRUE]
        ELSE reqs[i]]

\* commit('CLEAR_WORKSPACE_PERMISSIONS', workspaceId)
Cleared(workspaceId) ==
    /\ storePermissions' =
          CLEAR_WORKSPACE_PERMISSIONS(storePermissions, workspaceId)
    /\ endedBy' = [target \in Targets |->
                      IF target[1] = workspaceId /\ IsLoading(storeLoading,
                                                        target[1], target[2])
                      THEN "clear" ELSE endedBy[target]]

\* clearWorkspacePermissions(workspaceId) dispatched by a component
ClearWorkspacePermissions(workspaceId) ==
    /\ Cleared(workspaceId)
    /\ storeLoading' = CLEAR_WORKSPACE_PERMISSIONS(storeLoading, workspaceId)
    /\ requests' = MarkPreClear(requests, workspaceId)
    /\ handled' = NoId
    /\ UNCHANGED <<waiters, resolved>>
    /\ UNCHANGED storeFrame

\* the permissions_updated handler: the store is cleared; for a plugin
\* permission with a plugin_type the permission is refreshed and awaited;
\* the other branches emit on the bus or refetch host data
PermissionsUpdated(workspaceId, permissionType, plugin_type) ==
    /\ Cleared(workspaceId)
    /\ IF permissionType = "plugin" /\ Defined(plugin_type)
       THEN /\ Len(requests) < MaxRequests
            /\ storeLoading' =
                  SET_LOADING(CLEAR_WORKSPACE_PERMISSIONS(storeLoading,
                                                          workspaceId),
                              workspaceId, plugin_type[1], TRUE)
            /\ requests' = Append(MarkPreClear(requests, workspaceId),
                                  Request("handler", workspaceId,
                                          plugin_type[1]))
            /\ handled' = NoId
       ELSE /\ storeLoading' =
                  CLEAR_WORKSPACE_PERMISSIONS(storeLoading, workspaceId)
            /\ requests' = MarkPreClear(requests, workspaceId)
            /\ handled' = workspaceId
    /\ UNCHANGED <<waiters, resolved>>
    /\ UNCHANGED storeFrame

\* clearAllPermissions(): commit('CLEAR_ALL_PERMISSIONS')
ClearAllPermissions ==
    /\ storePermissions' = <<>>
    /\ storeLoading' = <<>>
    /\ endedBy' = [target \in Targets |->
                      IF IsLoading(storeLoading, target[1], target[2])
                      THEN "clear" ELSE endedBy[target]]
    /\ requests' = [i \in DOMAIN requests |->
                       [requests[i] EXCEPT !.preClear = TRUE]]
    /\ handled' = NoId
    /\ UNCHANGED <<waiters, resolved>>
    /\ UNCHANGED storeFrame

\* cachePermission(params, result) called while the store runs
CachePermission(params, value) ==
    LET key == _generateKey(params)
    IN  /\ Becomes(set(This, key, value, now, ttl, maxSize),
                   [CacheOp("set", key, "", 0, 0) EXCEPT !.value = value],
                   "none")
        /\ handled' = NoId
        /\ UNCHANGED <<storePermissions, storeLoading, requests, waiters,
                       resolved, endedBy>>
        /\ UNCHANGED <<given, ttl, maxSize, now, evalVars, batchVars,
                       recordVars, restVars>>

PermissionTypes == {"plugin", "database", "table", "field", "row"}

\* the decisions cached while the store runs: one per workspace
StoreCacheParams ==
    {KeyParams(workspaceId, 1, "table", 1) : workspaceId \in StoreWorkspaces}

NextStore ==
    \/ \E target \in Targets : FetchPermission(target[1], target[2])
    \/ \E target \in Targets : RefreshPermission(target[1], target[2])
    \/ \E i \in DOMAIN requests, response \in Responses :
          Receive(i, response)
    \/ \E target \in Targets : Poll(target[1], target[2])
    \/ \E workspaceId \in StoreWorkspaces :
          ClearWorkspacePermissions(workspaceId)
    \/ ClearAllPermissions
    \/ \E workspaceId \in StoreWorkspaces, permissionType \in PermissionTypes,
          plugin_type \in Optional(StorePlugins) :
          PermissionsUpdated(workspaceId, permissionType, plugin_type)
    \/ \E params \in StoreCacheParams : CachePermission(params, "true")

\* the store, its callers, the realtime handler and the singleton cache
SpecStore == InitStore /\ [][NextStore]_vars

\* the oldest request in flight settles, with success or with a failure
Settle == requests # <<>> /\ \E response \in Responses : Receive(1, response)

\* the interval of a waiting call fires and finds the flag cleared
PollAny == \E target \in Targets : Poll(target[1], target[2])

NextStoreCalls ==
    \/ \E target \in Targets : FetchPermission(target[1], target[2])
    \/ \E target \in Targets : RefreshPermission(target[1], target[2])
    \/ \E i \in DOMAIN requests, response \in Responses :
          Receive(i, response)
    \/ PollAny
    \/ \E workspaceId \in StoreWorkspaces :
          ClearWorkspacePermissions(workspaceId)

\* the store under fetchPermission, refreshPermission and
\* clearWorkspacePermissions calls.  Every request settles; the interval of
\* a waiting call keeps firing, so it sees a flag that stays cleared
SpecStoreCalls ==
    /\ InitStore
    /\ [][NextStoreCalls]_vars
    /\ WF_vars(Settle)
    /\ WF_vars(PollAny)

----------------------------------------------------------------------------
(* Properties of the store and of the realtime handler *)

\* C16 (realtime invalidation): once the permissions_updated handler for
\* workspace W has run, the cache holds no entry whose workspace id is W.
C16_RealtimeInvalidation ==
    handled # NoId
    => \A params \in StoreCacheParams :
          params.workspaceId = handled
          => _generateKey(params) \notin DOMAIN cache

\* C17 (no stale cached read after invalidation): no entry the getter reads
\* and no resolved fetchPermission carries a level that comes from a request
\* issued before a clear of its workspace that has been applied.
C17_NoStaleRead ==
    /\ \A target \in Targets :
          Defined(Entry(storePermissions, target[1], target[2]))
          => ~ Entry(storePermissions, target[1], target[2])[1].stale
    /\ resolved.by \in {"fetchPermission", "waiter"} => ~ resolved.stale

\* C18 (a failed fetch never grants): a fetchPermission call completed by a
\* request that failed with an error other than 404, the issuer or a waiter,
\* resolves to 'none', and canUsePlugin to false.
C18_FailedFetchNeverGrants ==
    (resolved.by \in {"fetchPermission", "waiter"} /\ resolved.cause = "error")
    => /\ resolved.level = "none"
       /\ ~ canUsePlugin(resolved.level)

\* the requests in flight that fetchPermission issued for a key
FetchesInFlight(target) ==
    {i \in DOMAIN requests :
        /\ requests[i].kind = "fetchPermission"
        /\ requests[i].workspaceId = target[1]
        /\ requests[i].pluginType = target[2]}

\* C25 (in-flight de-duplication): while a server request for a key is in
\* flight, a fetchPermission call for the same key issues no second request:
\* at most one request per key issued through fetchPermission is in flight
\* at any time, under every interleaving of fetchPermission calls with
\* clearWorkspacePermissions.
C25_InFlightDedup ==
    \A target \in Targets : Cardinality(FetchesInFlight(target)) <= 1

\* C28 (termination of the wait loop): every fetchPermission call eventually
\* resolves, provided every server request eventually settles, under any
\* interleaving with other fetchPermission, refreshPermission and
\* clearWorkspacePermissions calls.  The call that issued a request resolves
\* when the request settles; the property is about the calls that wait.
C28_WaitTerminates ==
    \A target \in Targets : (waiters[target] > 0) ~> (waiters[target] = 0)

----------------------------------------------------------------------------
(* getBatchPermissions of fieldPermissions.js and rowPermissions.js.  The   *)
(* server answers getPermissions(id) with a list of records (data), with    *)
(* 404, or the request fails otherwise.                                     *)

\* ids 1..MaxBatch can be asked for
MaxBatch == 3

BatchIds == 1..MaxBatch

\* data of a successful answer: no record, or the records of the object
NoPermissions == <<>>

SomePermissions == <<[user |-> 1, permission_level |-> "read_only"]>>

BatchResponses == {"empty", "records", "404", "error"}

\* the try/catch around one id: data, or [] when getPermissions threw
batchEntry(response) ==
    CASE response = "empty"   -> NoPermissions
      [] response = "records" -> SomePermissions
      [] OTHER                -> <<>>

\* getBatchPermissions(ids): every id is fetched and written to result
getBatchPermissions(responses) ==
    [id \in DOMAIN responses |-> batchEntry(responses[id])]

InitBatch ==
    /\ NoBatch
    /\ NoRecords
    /\ NoRest
    /\ state
    /\ permissionCache
    /\ now = 0
    /\ permissions = Undefined
    /\ operation = "none"
    /\ context = Undefined
    /\ result = "none"

\* a service is asked for ids and the server answers each with responses[id]
GetBatchPermissions(service, responses) ==
    /\ batchService = "none"
    /\ batchService' = service
    /\ batchResponses' = responses
    /\ batchResult' = getBatchPermissions(responses)
    /\ UNCHANGED <<evalVars, cacheVars, storeVars, recordVars, restVars>>

NextBatch ==
    \E service \in {"field", "row"}, ids \in SUBSET BatchIds :
       \E responses \in [ids -> BatchResponses] :
          GetBatchPermissions(service, responses)

SpecBatch == InitBatch /\ [][NextBatch]_vars

\* C19 (only NotFound means 'no restriction'): getBatchPermissions reports
\* an empty permission list for an id only when the server answered that id
\* with an empty list or with 404.
C19_OnlyNotFoundIsEmpty ==
    batchService # "none"
    => \A id \in DOMAIN batchResult :
          batchResult[id] = <<>> => batchResponses[id] \in {"empty", "404"}

----------------------------------------------------------------------------
(* Record writes.  One scope object (database 1) and one user (user 1); the *)
(* backend creates a record on every POST.  A call is [kind, pc, id]: pc is *)
(* the request it has sent and not yet had answered, id the record a PATCH  *)
(* names.  The collaboration service stands for the four services, whose    *)
(* getOrCreate and update methods have the same shape.                      *)

\* calls started in one behaviour
MaxCalls == 3

Call(kind, pc, id) == [kind |-> kind, pc |-> pc, id |-> id]

\* collaborations.find(c => c.user && c.user.id === userId): the first record
\* of the user in the list the GET returned, or undefined
existing(list) ==
    IF list = {} THEN NoId ELSE CHOOSE id \in list : \A other \in list : id <= other

\* the id the backend gives the next record
NewId(list) == Cardinality(list) + 1

\* what the calls on records leave alone
recordFrame == <<restVars, evalVars, batchVars, given, ttl, maxSize, now, cacheOp,
                 cacheRet,
                 waiters, resolved, handled>>

\* the cache after a service method that wrote: scope and user invalidated
\* (createCollaboration) or the scope only (updateCollaboration)
Invalidated(c) ==
    /\ cache' = c.cache
    /\ accessOrder' = c.accessOrder
    /\ recency' = SelectSeq(recency, LAMBDA k : k \in DOMAIN c.cache)

\* the store after saveCollaboration dispatched clearWorkspacePermissions
WorkspaceCleared(workspaceId) ==
    /\ Cleared(workspaceId)
    /\ storeLoading' = CLEAR_WORKSPACE_PERMISSIONS(storeLoading, workspaceId)
    /\ requests' = MarkPreClear(requests, workspaceId)

InitRecords ==
    /\ NoRecords
    /\ NoRest
    /\ NoBatch
    /\ state
    /\ permissionCache
    /\ now = 0
    /\ permissions = Undefined
    /\ operation = "none"
    /\ context = Undefined
    /\ result = "none"

\* getOrCreateCollaboration(databaseId, userId) sends its GET
GetOrCreateCollaboration ==
    /\ started < MaxCalls
    /\ started' = started + 1
    /\ calls' = Append(calls, Call("getOrCreateCollaboration", "GET", NoId))
    /\ UNCHANGED <<records, editorId>>
    /\ UNCHANGED <<cache, accessOrder, recency, storePermissions, storeLoading,
                   requests, endedBy>>
    /\ UNCHANGED recordFrame

\* updateAccessibleTables(databaseId, userId, tableIds) sends its GET
UpdateAccessibleTables ==
    /\ started < MaxCalls
    /\ started' = started + 1
    /\ calls' = Append(calls, Call("updateAccessibleTables", "GET", NoId))
    /\ UNCHANGED <<records, editorId>>
    /\ UNCHANGED <<cache, accessOrder, recency, storePermissions, storeLoading,
                   requests, endedBy>>
    /\ UNCHANGED recordFrame

\* selectAllTables / deselectAllTables / updateTablePermission /
\* toggleTableAccess: saveCollaboration(updates) runs up to its await and
\* sends a PATCH when currentCollaboration.id is set, a POST otherwise
SaveCollaboration ==
    /\ started < MaxCalls
    /\ started' = started + 1
    /\ calls' = Append(calls,
                       IF editorId # NoId
                       THEN Call("saveCollaboration", "PATCH", editorId)
                       ELSE Call("saveCollaboration", "POST", NoId))
    /\ UNCHANGED <<records, editorId>>
    /\ UNCHANGED <<cache, accessOrder, recency, storePermissions, storeLoading,
                   requests, endedBy>>
    /\ UNCHANGED recordFrame

\* the GET of call i is answered with the records the backend holds now:
\* getOrCreate returns the existing record or sends a POST; update sends a
\* PATCH for the existing record or a POST
AnswerGet(i) ==
    LET call == calls[i]
        found == existing(records)
    IN  /\ call.pc = "GET"
        /\ calls' =
              IF found = NoId
              THEN [calls EXCEPT ![i] = Call(call.kind, "POST", NoId)]
              ELSE IF call.kind = "getOrCreateCollaboration"
              THEN RemoveAt(calls, i)
              ELSE [calls EXCEPT ![i] = Call(call.kind, "PATCH", found)]
        /\ UNCHANGED <<records, editorId, started>>
        /\ UNCHANGED <<cache, accessOrder, recency, storePermissions, storeLoading,
                       requests, endedBy>>
        /\ UNCHANGED recordFrame

\* the POST of call i is answered: the backend has created a record;
\* createCollaboration invalidates the database and the user; the editor
\* keeps result.id and clears the plugin permissions of the workspace
AnswerPost(i) ==
    LET call == calls[i]
        id == NewId(records)
    IN  /\ call.pc = "POST"
        /\ records' = records \cup {id}
        /\ calls' = RemoveAt(calls, i)
        /\ Invalidated(createPermission(This, "database", 1, 1, 1))
        /\ IF call.kind = "saveCollaboration"
           THEN /\ editorId' = id
                /\ WorkspaceCleared(1)
           ELSE /\ UNCHANGED editorId
                /\ UNCHANGED <<storePermissions, storeLoading, requests,
                               endedBy>>
        /\ UNCHANGED started
        /\ UNCHANGED recordFrame

\* the PATCH of call i is answered: the record it names is updated;
\* updateCollaboration invalidates the database, updateAccessibleTables the
\* user as well
AnswerPatch(i) ==
    LET call == calls[i]
    IN  /\ call.pc = "PATCH"
        /\ calls' = RemoveAt(calls, i)
        /\ Invalidated(IF call.kind = "updateAccessibleTables"
                       THEN updatePermissionLevel(This, "database", 1, 1, 1,
                                                  TRUE)
                       ELSE updatePermission(This, "database", 1, 1))
        /\ IF call.kind = "saveCollaboration"
           THEN /\ editorId' = call.id
                /\ WorkspaceCleared(1)
           ELSE /\ UNCHANGED editorId
                /\ UNCHANGED <<storePermissions, storeLoading, requests,
                               endedBy>>
        /\ UNCHANGED <<records, started>>
        /\ UNCHANGED recordFrame

NextRecords ==
    \/ GetOrCreateCollaboration
    \/ UpdateAccessibleTables
    \/ SaveCollaboration
    \/ \E i \in DOMAIN calls : AnswerGet(i)
    \/ \E i \in DOMAIN calls : AnswerPost(i)
    \/ \E i \in DOMAIN calls : AnswerPatch(i)

SpecRecords == InitRecords /\ [][NextRecords]_vars

\* C20 (one record per (object, user)): whatever the interleaving of
\* getOrCreate, update and editor save calls for one scope object and one
\* user, the backend holds at most one record for the pair.
C20_OneRecordPerPair == Cardinality(records) <= 1

----------------------------------------------------------------------------
(* The permissions_updated handler of realtime.js, statement by statement.  *)
(* handler.log lists what it has executed; handler.workspace is what the    *)
(* getter workspace/get returns for the workspace of the event and          *)
(* handler.forceFetch tells whether the host registers the action           *)
(* workspace/forceFetchPermissions.                                         *)

\* permission_type of an event: the five types of the switch and any other
HandlerTypes == PermissionTypes \cup {"other"}

\* app.$bus.$emit(...)
emit(h) == [h EXCEPT !.log = Append(@, "$emit")]

\* updateWorkspacePermissions(store, workspaceId) up to its await: the action
\* is dispatched when the workspace is known and the action is registered
updateWorkspacePermissions(h) ==
    LET called == [h EXCEPT !.log = Append(@, "updateWorkspacePermissions")]
    IN  IF Defined(h.workspace) /\ h.forceFetch
        THEN [called EXCEPT !.pc = "forceFetchPermissions",
                            !.log = Append(@, "forceFetchPermissions")]
        ELSE [called EXCEPT !.pc = "done"]

\* case 'plugin' after its await: refreshPermission resolves whatever the
\* server answered, then the bus event, break, and the workspace refresh
afterRefresh(h, outcome) ==
    updateWorkspacePermissions(emit([h EXCEPT !.failed = outcome # "ok"]))

afterFetchAll_Uncaught(h, outcome) ==
    IF outcome = "error"
    THEN [h EXCEPT !.failed = TRUE, !.pc = "done"]
    ELSE updateWorkspacePermissions(h)

\* case 'database' after its await: a failure is caught and logged, break,
\* and the workspace refresh
afterFetchAll(h, outcome) ==
    updateWorkspacePermissions([h EXCEPT !.failed = outcome = "error"])

\* what a step of the handler leaves alone
handlerFrame ==
    <<waiters, resolved, endedBy, handled, evalVars, cacheVars, batchVars,
      recordVars, sidebar, engine, editorVars>>

InitHandler ==
    /\ NoRest
    /\ state
    /\ permissionCache
    /\ now = 0
    /\ permissions = Undefined
    /\ operation = "none"
    /\ context = Undefined
    /\ result = "none"
    /\ NoBatch
    /\ NoRecords

\* a fetchPermission call ran to its end while no handler was running: the
\* store holds the level the server gave
PermissionFetched(workspaceId, pluginType, level) ==
    /\ handler.pc \in {"idle", "done"}
    /\ storePermissions' = SET_PERMISSION(storePermissions, workspaceId,
                                          pluginType, level, now, FALSE)
    /\ storeLoading' = SET_LOADING(storeLoading, workspaceId, pluginType,
                                   FALSE)
    /\ UNCHANGED <<requests, handler>>
    /\ UNCHANGED handlerFrame

\* the handler up to its first await: the store is cleared, the switch
\* runs; the branches without an await go on to updateWorkspacePermissions
permissions_updated(workspaceId, permissionType, plugin_type, workspace, forceFetch) ==
    LET h == [pc |-> "switch", permission_type |-> permissionType,
              plugin_type |-> plugin_type, workspace |-> workspace,
              forceFetch |-> forceFetch,
              log |-> <<"clearWorkspacePermissions">>, failed |-> FALSE]
        cleared == CLEAR_WORKSPACE_PERMISSIONS(storeLoading, workspaceId)
    IN  /\ handler.pc \in {"idle", "done"}
        /\ storePermissions' =
              CLEAR_WORKSPACE_PERMISSIONS(storePermissions, workspaceId)
        /\ IF permissionType = "plugin" /\ Defined(plugin_type)
           THEN /\ storeLoading' = SET_LOADING(cleared, workspaceId,
                                               plugin_type[1], TRUE)
                /\ requests' = Append(requests,
                                      Request("handler", workspaceId,
                                              plugin_type[1]))
                /\ handler' = [h EXCEPT !.pc = "refreshPermission",
                                        !.log = Append(@, "refreshPermission")]
           ELSE /\ storeLoading' = cleared
                /\ requests' = requests
                /\ handler' =
                      CASE permissionType = "plugin" ->
                              updateWorkspacePermissions(emit(h))
                        [] permissionType = "database" ->
                              [h EXCEPT !.pc = "fetchAll",
                                        !.log = Append(@, "fetchAll")]
                        [] permissionType \in {"table", "field", "row"} ->
                              updateWorkspacePermissions(emit(h))
                        [] OTHER -> updateWorkspacePermissions(h)
        /\ UNCHANGED handlerFrame

\* the GET of refreshPermission settles: the rest of
\* _fetchPermissionFromServer, then the rest of case 'plugin'
RefreshSettled(response) ==
    LET req == requests[1]
        permissionLevel ==
            IF Outcome(response) = "ok" THEN OrNone(response) ELSE "none"
    IN  /\ handler.pc = "refreshPermission"
        /\ storePermissions' =
              IF Outcome(response) \in {"ok", "404"}
              THEN SET_PERMISSION(storePermissions, req.workspaceId,
                                  req.pluginType, permissionLevel, now, FALSE)
              ELSE storePermissions
        /\ storeLoading' = SET_LOADING(storeLoading, req.workspaceId,
                                       req.pluginType, FALSE)
        /\ requests' = Tail(requests)
        /\ handler' = afterRefresh(handler, Outcome(response))
        /\ UNCHANGED handlerFrame

\* application/fetchAll settles
FetchAllSettled(outcome) ==
    /\ handler.pc = "fetchAll"
    /\ handler' = afterFetchAll(handler, outcome)
    /\ UNCHANGED <<storePermissions, storeLoading, requests>>
    /\ UNCHANGED handlerFrame

\* workspace/forceFetchPermissions settles: a failure is caught and logged
ForceFetchSettled(outcome) ==
    /\ handler.pc = "forceFetchPermissions"
    /\ handler' = [handler EXCEPT !.pc = "done"]
    /\ UNCHANGED <<storePermissions, storeLoading, requests>>
    /\ UNCHANGED handlerFrame

NextHandler ==
    \/ \E target \in Targets, level \in Levels :
          PermissionFetched(target[1], target[2], level)
    \/ \E workspaceId \in StoreWorkspaces, permissionType \in HandlerTypes,
          plugin_type \in Optional(StorePlugins), known \in BOOLEAN,
          forceFetch \in BOOLEAN :
          permissions_updated(workspaceId, permissionType, plugin_type,
                              IF known THEN <<workspaceId>> ELSE Undefined,
                              forceFetch)
    \/ \E response \in Responses : RefreshSettled(response)
    \/ \E outcome \in {"ok", "error"} : FetchAllSettled(outcome)
    \/ \E outcome \in {"ok", "error"} : ForceFetchSettled(outcome)

\* one permissions_updated event after the other, on a store that is filled
\* in between
SpecHandler == InitHandler /\ [][NextHandler]_vars

\* the refresh the claim expects for a permission_type
TypeRefresh(h) ==
    CASE h.permission_type = "plugin" ->
            (IF Defined(h.plugin_type) THEN <<"refreshPermission">> ELSE <<>>)
            \o <<"$emit">>
      [] h.permission_type = "database" -> <<"fetchAll">>
      [] h.permission_type \in {"table", "field", "row"} -> <<"$emit">>
      [] OTHER -> <<>>

\* everything the handler of an event on a known workspace executes
FullRun(h) ==
    <<"clearWorkspacePermissions">> \o TypeRefresh(h)
    \o <<"updateWorkspacePermissions">>
    \o (IF h.forceFetch THEN <<"forceFetchPermissions">> ELSE <<>>)

\* C29 (order of the permissions_updated handler): for every event whose
\* workspace is known to the store, the handler first clears the
\* plugin-permission cache of that workspace, then performs the refresh
\* specific to permission_type, and always ends by attempting a refresh of
\* the workspace permissions, whatever the permission_type (unknown types
\* included) and even when the type-specific refresh fails.
C29_HandlerOrder ==
    (handler.pc # "idle" /\ Defined(handler.workspace))
    => /\ Len(handler.log) <= Len(FullRun(handler))
       /\ handler.log = SubSeq(FullRun(handler), 1, Len(handler.log))
       /\ handler.pc = "done" => handler.log = FullRun(handler)
       /\ handler.pc \in {"refreshPermission", "fetchAll"}
          => handler.workspace[1] \notin DOMAIN storePermissions

\* the handler of a database event ended after application/fetchAll had
\* failed, and had dispatched workspace/forceFetchPermissions
C29_Witness ==
    /\ handler.pc = "done"
    /\ Defined(handler.workspace)
    /\ handler.permission_type = "database"
    /\ handler.failed
    /\ handler.forceFetch
    /\ handler.log[Len(handler.log)] = "forceFetchPermissions"

----------------------------------------------------------------------------
(* The sidebar: accessibleTables of the database sidebar component and      *)
(* hasAccessToDatabase of SidebarWithWorkspace.  A workspace is <<>> or     *)
(* <<[permissionsLoaded, permissions]>> (the two properties of workspace._  *)
(* that are read); permissions is the list of the permission managers'      *)
(* objects, absent or present.                                              *)

\* array.includes(x)
Includes(array, x) == \E i \in DOMAIN array : array[i] = x

\* array.sort((a, b) => a.order - b.order): a stable insertion
RECURSIVE orderedTables(_)
orderedTables(tables) ==
    IF tables = <<>> THEN <<>>
    ELSE LET rest == orderedTables(Tail(tables))
             first == Head(tables)
             before == SelectSeq(rest, LAMBDA t : t.order < first.order)
             after == SelectSeq(rest, LAMBDA t : t.order >= first.order)
         IN  before \o <<first>> \o after

\* permissions.find(p => p.name === 'access_control'): <<>> for undefined
Find(managers, name) ==
    IF \E i \in DOMAIN managers : managers[i].name = name
    THEN <<managers[CHOOSE i \in DOMAIN managers :
                       /\ managers[i].name = name
                       /\ \A j \in 1..(i - 1) : managers[j].name # name]>>
    ELSE Undefined

\* the permissions object of the access_control manager when the guards at
\* the top of both functions let it through, <<>> when one of them returns
AccessControlPerms(workspace) ==
    IF ~Defined(workspace) \/ ~workspace[1].permissionsLoaded THEN Undefined
    ELSE IF \/ ~Defined(workspace[1].permissions)
            \/ Len(workspace[1].permissions[1]) = 0 THEN Undefined
    ELSE LET accessControlPerm ==
                 Find(workspace[1].permissions[1], "access_control")
         IN  IF \/ ~Defined(accessControlPerm)
                \/ ~Defined(accessControlPerm[1].permissions)
             THEN Undefined
             ELSE accessControlPerm[1].permissions

accessibleTables_ShowsAll(workspace, application) ==
    LET perms == AccessControlPerms(workspace)
        tables == orderedTables(application.tables)
    IN  IF ~Defined(perms) THEN tables
        ELSE IF Truthy(perms[1].is_admin) THEN tables
        ELSE IF Defined(perms[1].database_collaborations)
        THEN LET collab == Lookup(perms[1].database_collaborations[1],
                                  application.id)
             IN  IF Defined(collab) /\ Defined(collab[1].accessible_tables)
                 THEN SelectSeq(tables, LAMBDA table :
                         Includes(collab[1].accessible_tables[1], table.id))
                 ELSE tables
        ELSE tables

\* computed accessibleTables()
accessibleTables(workspace, application) ==
    LET perms == AccessControlPerms(workspace)
        tables == orderedTables(application.tables)
    IN  IF ~Defined(perms) THEN tables
        ELSE IF Truthy(perms[1].is_admin) THEN tables
        ELSE IF Defined(perms[1].database_collaborations)
        THEN LET collab == Lookup(perms[1].database_collaborations[1],
                                  application.id)
             IN  IF Defined(collab) /\ Defined(collab[1].accessible_tables)
                 THEN SelectSeq(tables, LAMBDA table :
                         Includes(collab[1].accessible_tables[1], table.id))
                 ELSE <<>>
        ELSE <<>>

\* hasAccessToDatabase(database): a && b yields a when a is undefined
hasAccessToDatabase(workspace, database) ==
    LET perms == AccessControlPerms(workspace)
    IN  IF ~Defined(perms) THEN "true"
        ELSE IF Truthy(perms[1].is_admin) THEN "true"
        ELSE IF Defined(perms[1].database_collaborations)
        THEN LET collab == Lookup(perms[1].database_collaborations[1],
                                  database.id)
             IN  IF Defined(collab)
                 THEN IF ~Defined(collab[1].accessible_tables)
                      THEN "undefined"
                      ELSE IF Len(collab[1].accessible_tables[1]) > 0
                      THEN "true" ELSE "false"
                 ELSE "false"
        ELSE "false"

\* accessible_tables of a collaboration: absent, empty, or ids, one of which
\* names no table of the database
AccessibleTableLists ==
    Optional({<<>>, <<1>>, <<2>>, <<2, 1>>, <<1, 3>>})

\* database_collaborations: absent, or entries for database 1, for database
\* 2, for both, for none
SidebarCollaborations ==
    {Undefined}
    \cup {<<m>> : m \in
            {<<>>, [d \in {2} |-> [accessible_tables |-> <<<<1, 2>>>>]]}
            \cup {[d \in {1} |-> [accessible_tables |-> list]] :
                     list \in AccessibleTableLists}
            \cup {[d \in {1, 2} |->
                      [accessible_tables |->
                          IF d = 1 THEN list ELSE <<<<1, 2>>>>]] :
                     list \in AccessibleTableLists}}

\* the permissions object of the access_control manager; the table
\* permissions are there for the functions to ignore
SidebarPerms ==
    [is_admin : Flag, database_collaborations : SidebarCollaborations,
     table_permissions : {<<>>, [t \in {1} |-> "editable"]}]

SidebarManagers ==
    {Undefined, << <<>> >>,
     << <<[name |-> "core", permissions |-> Undefined]>> >>,
     << <<[name |-> "access_control", permissions |-> Undefined]>> >>}
    \cup {<< <<[name |-> "core", permissions |-> Undefined],
               [name |-> "access_control", permissions |-> <<perms>>]>> >> :
             perms \in SidebarPerms}

SidebarWorkspaces ==
    Optional([permissionsLoaded : BOOLEAN, permissions : SidebarManagers])

\* database 1 with no table, one table, or two tables in either order
SidebarApplications ==
    {[id |-> 1, tables |-> tables] :
        tables \in {<<>>, <<[id |-> 1, order |-> 1]>>,
                    <<[id |-> 1, order |-> 1], [id |-> 2, order |-> 2]>>,
                    <<[id |-> 1, order |-> 2], [id |-> 2, order |-> 1]>>}}

\* what a render of the sidebar leaves alone
sidebarFrame ==
    <<evalVars, cacheVars, storeVars, batchVars, recordVars, handler, engine,
      editorVars>>

InitSidebar ==
    /\ sidebar \in [workspace : SidebarWorkspaces,
                    application : SidebarApplications,
                    accessibleTables : {Undefined},
                    hasAccessToDatabase : {"none"}]
    /\ NoHandler
    /\ NoEngine
    /\ NoEditor
    /\ state
    /\ permissionCache
    /\ now = 0
    /\ permissions = Undefined
    /\ operation = "none"
    /\ context = Undefined
    /\ result = "none"
    /\ NoBatch
    /\ NoRecords

\* the database's sidebar entry renders its tables
AccessibleTables ==
    /\ sidebar.accessibleTables = Undefined
    /\ sidebar' = [sidebar EXCEPT !.accessibleTables =
                      <<accessibleTables(sidebar.workspace,
                                         sidebar.application)>>]
    /\ UNCHANGED sidebarFrame

\* the workspace sidebar filters its applications
HasAccessToDatabase ==
    /\ sidebar.hasAccessToDatabase = "none"
    /\ sidebar' = [sidebar EXCEPT !.hasAccessToDatabase =
                      hasAccessToDatabase(sidebar.workspace,
                                          sidebar.application)]
    /\ UNCHANGED sidebarFrame

NextSidebar == AccessibleTables \/ HasAccessToDatabase

SpecSidebar == InitSidebar /\ [][NextSidebar]_vars

\* the access_control snapshot of the rendered workspace, when it is loaded
Snapshot ==
    LET w == sidebar.workspace[1]
        i == CHOOSE j \in DOMAIN w.permissions[1] :
                w.permissions[1][j].name = "access_control"
    IN  w.permissions[1][i].permissions[1]

\* the workspace carries a loaded access_control snapshot of a non-admin
LoadedNonAdmin ==
    /\ sidebar.workspace # Undefined
    /\ sidebar.workspace[1].permissionsLoaded
    /\ sidebar.workspace[1].permissions # Undefined
    /\ \E j \in DOMAIN sidebar.workspace[1].permissions[1] :
          LET p == sidebar.workspace[1].permissions[1][j]
          IN  p.name = "access_control" /\ p.permissions # Undefined
    /\ Snapshot.is_admin # "true"

\* the snapshot has a collaboration entry for the rendered database
HasEntry ==
    /\ Snapshot.database_collaborations # Undefined
    /\ sidebar.application.id \in DOMAIN Snapshot.database_collaborations[1]

\* the ids accessible_tables of the entry holds
EntryTables ==
    LET entry == Snapshot.database_collaborations[1][sidebar.application.id]
    IN  IF entry.accessible_tables = Undefined THEN {}
        ELSE {entry.accessible_tables[1][i] :
                 i \in DOMAIN entry.accessible_tables[1]}

\* C21 (zero visibility without collaboration): for a non-admin user whose
\* access_control snapshot is loaded and has no collaboration entry for
\* database D, the sidebar lists no table of D and hides D
\* (hasAccessToDatabase is false), whatever table, field or row permissions
\* exist; with an entry, exactly the tables whose id is in accessible_tables
\* are listed.
C21_ZeroVisibility ==
    LoadedNonAdmin
    => /\ sidebar.accessibleTables # Undefined
          => LET listed == sidebar.accessibleTables[1]
                 tables == sidebar.application.tables
             IN  IF HasEntry
                 THEN /\ {listed[i].id : i \in DOMAIN listed}
                         = {tables[i].id : i \in DOMAIN tables}
                           \cap EntryTables
                      /\ Len(listed)
                         = Cardinality({listed[i].id : i \in DOMAIN listed})
                 ELSE listed = <<>>
       /\ (sidebar.hasAccessToDatabase # "none" /\ ~HasEntry)
          => sidebar.hasAccessToDatabase = "false"

\* a database with two tables was rendered for a non-admin whose snapshot
\* has table permissions and an entry for another database only: no table is
\* listed and the database is hidden
C21_Witness ==
    /\ LoadedNonAdmin
    /\ ~HasEntry
    /\ Snapshot.database_collaborations # Undefined
    /\ Snapshot.table_permissions # <<>>
    /\ Len(sidebar.application.tables) = 2
    /\ sidebar.accessibleTables = << <<>> >>
    /\ sidebar.hasAccessToDatabase = "false"

----------------------------------------------------------------------------
(* The condition rule engine.  It runs in the backend; the frontend only    *)
(* edits the rules (ConditionRuleManager.vue) and sends them                *)
(* (conditionRules.js).  The engine is written down from section 4.2 of the *)
(* specification: each active rule of the table is evaluated on the row,    *)
(* the matching rule with the highest priority is selected (the lowest id   *)
(* among equals), and its permission_level is the decision; without a       *)
(* matching rule the engine has no opinion.                                 *)

\* number of rules a table carries
MaxRules == 2

RuleLevels == {"invisible", "read_only", "editable"}

\* the priorities of the rules: the default of the form, and 5 and 10
RulePriorities == {0, 5, 10}

RuleUsers == {1, 2}

\* condition_type with the condition_config it needs: the field of a
\* field_match rule is compared with a value (operator equals, the default
\* of the form)
RuleConditions ==
    {[condition_type |-> "creator", operator |-> "", value |-> ""],
     [condition_type |-> "collaborator", operator |-> "", value |-> ""],
     [condition_type |-> "field_match", operator |-> "equals",
      value |-> "x"]}

ConditionRules ==
    [condition : RuleConditions, permission_level : RuleLevels,
     priority : RulePriorities, is_active : BOOLEAN]

\* the rules of a table, by id
RuleTables == UNION {[1..n -> ConditionRules] : n \in 0..MaxRules}

\* a row: its creator, the value of the compared field, and the users in
\* its collaborator field
Rows == [creator : RuleUsers, field : {"x", "y"},
         collaborators : {{}, {1}}]

\* step 1: does the condition of a rule hold on the row for the user
Matches(rule, row, user) ==
    CASE rule.condition.condition_type = "creator" -> row.creator = user
      [] rule.condition.condition_type = "collaborator" ->
            user \in row.collaborators
      [] rule.condition.condition_type = "field_match" ->
            IF rule.condition.operator = "equals"
            THEN row.field = rule.condition.value
            ELSE row.field # rule.condition.value

\* the ids of the active rules that match
Matching(rules, row, user) ==
    {i \in DOMAIN rules :
        rules[i].is_active /\ Matches(rules[i], row, user)}

selectRule_LowestId(rules, matching) ==
    CHOOSE i \in matching : \A j \in matching : i <= j

\* step 2: the matching rule with the highest priority, the lowest id among
\* rules of equal priority
selectRule(rules, matching) ==
    CHOOSE i \in matching :
        \A j \in matching :
            \/ rules[j].priority < rules[i].priority
            \/ rules[j].priority = rules[i].priority /\ i <= j

\* steps 3 and 4: the level of the selected rule, or no opinion
evaluateRules(rules, row, user) ==
    LET matching == Matching(rules, row, user)
    IN  IF matching = {} THEN "null"
        ELSE rules[selectRule(rules, matching)].permission_level

\* what an evaluation leaves alone
engineFrame ==
    <<evalVars, cacheVars, storeVars, batchVars, recordVars, handler,
      sidebar, editorVars>>

InitEngine ==
    /\ engine \in [rules : RuleTables, row : Rows, user : {1},
                   decision : {"none"}]
    /\ NoHandler
    /\ NoSidebar
    /\ NoEditor
    /\ state
    /\ permissionCache
    /\ now = 0
    /\ permissions = Undefined
    /\ operation = "none"
    /\ context = Undefined
    /\ result = "none"
    /\ NoBatch
    /\ NoRecords

\* the engine is asked about the row for the user
EvaluateRules ==
    /\ engine.decision = "none"
    /\ engine' = [engine EXCEPT !.decision =
                     evaluateRules(engine.rules, engine.row, engine.user)]
    /\ UNCHANGED engineFrame

NextEngine == EvaluateRules

SpecEngine == InitEngine /\ [][NextEngine]_vars

\* C22 (condition rule priority): among the active condition rules of a
\* table that match a row for the acting user, the permission level applied
\* is that of the rule with the highest priority (with two matching rules of
\* priorities 5 and 10, the level of the priority-10 rule).
C22_HighestPriority ==
    LET matching == {i \in DOMAIN engine.rules :
                        /\ engine.rules[i].is_active
                        /\ Matches(engine.rules[i], engine.row, engine.user)}
    IN  (engine.decision # "none" /\ matching # {})
        => \E i \in matching :
              /\ \A j \in matching :
                    engine.rules[j].priority <= engine.rules[i].priority
              /\ engine.decision = engine.rules[i].permission_level

\* rule 1 (priority 5, editable) and rule 2 (priority 10, read_only) are
\* active and match: the decision is read_only
C22_Witness ==
    /\ Len(engine.rules) = 2
    /\ \A i \in {1, 2} :
          /\ engine.rules[i].is_active
          /\ Matches(engine.rules[i], engine.row, engine.user)
    /\ engine.rules[1].priority = 5
    /\ engine.rules[1].permission_level = "editable"
    /\ engine.rules[2].priority = 10
    /\ engine.rules[2].permission_level = "read_only"
    /\ engine.decision = "read_only"

----------------------------------------------------------------------------
(***************************************************************************)
(* Part 9: the collaboration editor (DatabaseCollaborationModal.vue).  A    *)
(* member is selected who has no collaboration record.  Every handler runs  *)
(* saveCollaboration up to its await; the request is answered later.  The   *)
(* backend stores what it receives: a POST creates a record from its body,  *)
(* a PATCH overwrites the fields it names.  Requests are answered in the    *)
(* order they were sent.                                                    *)
(***************************************************************************)

\* saves started and not yet answered
MaxSaves == 2

\* this.tables: the tables of the database, in the order they are listed
EditorTables == <<1, 2>>

\* the DropdownItem values of the table permission dropdown
TableLevels == {"read_only", "editable"}

\* { ...object, ...updates }
Spread(object, updates) ==
    [k \in DOMAIN object \cup DOMAIN updates |->
        IF k \in DOMAIN updates THEN updates[k] ELSE object[k]]

isTableAccessible(tableId) ==
    Includes(currentCollaboration.accessible_tables, tableId)

\* table_permissions[id] || 'editable'
getTablePermission(table_permissions, tableId) ==
    IF tableId \in DOMAIN table_permissions
    THEN table_permissions[tableId]
    ELSE "editable"

\* accessible_tables.filter(id => id !== tableId)
RECURSIVE Without(_, _)
Without(array, tableId) ==
    IF array = <<>>
    THEN <<>>
    ELSE IF Head(array) = tableId
    THEN Without(Tail(array), tableId)
    ELSE <<Head(array)>> \o Without(Tail(array), tableId)

\* delete object[key]
DeleteKey(object, key) == [k \in DOMAIN object \ {key} |-> object[k]]

\* saveCollaboration(updates) up to its await: saving is set, and a PATCH
\* with the updates alone is sent when currentCollaboration.id is set, a
\* POST with the fields of { ...currentCollaboration, ...updates } otherwise
saveCollaboration(updates) ==
    LET newData == Spread(currentCollaboration, updates)
    IN  /\ Len(saves) < MaxSaves
        /\ saving' = TRUE
        /\ saves' = Append(saves,
              IF currentCollaboration.id # NoId
              THEN [method |-> "PATCH", id |-> currentCollaboration.id,
                    data |-> updates]
              ELSE [method |-> "POST", id |-> NoId,
                    data |-> [accessible_tables |->
                                  newData.accessible_tables,
                              table_permissions |->
                                  newData.table_permissions]])
        /\ UNCHANGED <<currentCollaboration, stored>>

editorFrame ==
    <<evalVars, cacheVars, storeVars, batchVars, recordVars, handler,
      sidebar, engine>>

InitEditor ==
    /\ NoEditor
    /\ NoHandler
    /\ NoSidebar
    /\ NoEngine
    /\ state
    /\ permissionCache
    /\ now = 0
    /\ permissions = Undefined
    /\ operation = "none"
    /\ context = Undefined
    /\ result = "none"
    /\ NoBatch
    /\ NoRecords

\* the Checkbox of a table, enabled while saving is false, emits the
\* opposite of the value it shows
ToggleTableAccess(tableId) ==
    LET checked == ~isTableAccessible(tableId)
        current == currentCollaboration
        newAccessibleTables ==
            IF checked
            THEN Append(current.accessible_tables, tableId)
            ELSE Without(current.accessible_tables, tableId)
        newTablePermissions ==
            IF ~checked
            THEN DeleteKey(current.table_permissions, tableId)
            ELSE IF tableId \notin DOMAIN current.table_permissions
            THEN Spread(current.table_permissions,
                        [k \in {tableId} |-> "editable"])
            ELSE current.table_permissions
    IN  /\ ~saving
        /\ saveCollaboration([accessible_tables |-> newAccessibleTables,
                              table_permissions |-> newTablePermissions])
        /\ UNCHANGED editorFrame

\* the select-all link: it has no disabled state
SelectAllTables ==
    LET allTableIds == EditorTables
        allTablePermissions ==
            [id \in {allTableIds[i] : i \in DOMAIN allTableIds} |->
                getTablePermission(currentCollaboration.table_permissions,
                                   id)]
    IN  /\ saveCollaboration([accessible_tables |-> allTableIds,
                              table_permissions |-> allTablePermissions])
        /\ UNCHANGED editorFrame

\* the deselect-all link: it has no disabled state
DeselectAllTables ==
    /\ saveCollaboration([accessible_tables |-> <<>>,
                          table_permissions |-> <<>>])
    /\ UNCHANGED editorFrame

\* the Dropdown of a table: rendered while the table is accessible,
\* enabled while saving is false; it sends table_permissions alone
UpdateTablePermission(tableId, permissionLevel) ==
    LET newTablePermissions ==
            Spread(currentCollaboration.table_permissions,
                   [k \in {tableId} |-> permissionLevel])
    IN  /\ isTableAccessible(tableId)
        /\ ~saving
        /\ saveCollaboration([table_permissions |-> newTablePermissions])
        /\ UNCHANGED editorFrame

\* the oldest save is answered: the backend stores it and returns the
\* record, which becomes currentCollaboration; finally clears saving,
\* whatever other saves are pending
SaveAnswered ==
    LET save == Head(saves)
        record ==
            IF save.method = "POST"
            THEN Spread([id |-> Len(stored) + 1], save.data)
            ELSE Spread(stored[save.id], save.data)
    IN  /\ saves # <<>>
        /\ saves' = Tail(saves)
        /\ stored' = IF save.method = "POST"
                     THEN Append(stored, record)
                     ELSE [stored EXCEPT ![save.id] = record]
        /\ currentCollaboration' = record
        /\ saving' = FALSE
        /\ UNCHANGED editorFrame

NextEditor ==
    \/ \E tableId \in 1..Len(EditorTables) : ToggleTableAccess(tableId)
    \/ SelectAllTables
    \/ DeselectAllTables
    \/ \E tableId \in 1..Len(EditorTables), permissionLevel \in TableLevels :
          UpdateTablePermission(tableId, permissionLevel)
    \/ SaveAnswered

SpecEditor == InitEditor /\ [][NextEditor]_vars

\* C30: once every save is answered, the record the editor shows has a
\* table_permissions entry for exactly the tables in its accessible_tables
C30_EditorConsistency ==
    (saves = <<>> /\ currentCollaboration.id # NoId) =>
        LET record == stored[currentCollaboration.id]
        IN  DOMAIN record.table_permissions =
                {record.accessible_tables[i] :
                    i \in DOMAIN record.accessible_tables}

----------------------------------------------------------------------------
TypeOK ==
    /\ result \in {"none", "true", "false", "null", "undefined", "throw"}
    /\ operation \in Operations \cup {"none"}

====
